---------------------------- MODULE Spec2Model ----------------------------
(***************************************************************************)
(* Data Analytics Assistant: the Dataset Summarizer (DatasetAnalyzer), the *)
(* Chat Client / Chat Session (GroqClient, ChatService), the Chart Advisor *)
(* (ChartGenerator) and the HTTP upload/chat handlers (server.py).         *)
(*                                                                         *)
(* A Dataset is [nrows, cols]; a column is [name, dtype, vals] with        *)
(* Len(vals) = nrows.  A cell is Null, Num(n), Str(s), Bool(b) or a time   *)
(* of day (datetime.time, as read from a spreadsheet).                     *)
(* Percentages are kept in hundredths of a percent (100.0 is 10000), the   *)
(* precision round(.., 2) leaves.                                          *)
(***************************************************************************)
EXTENDS Integers, Sequences, FiniteSets, TLC

\* ------------------------------------------------------------------ bounds
StatsMaxCols == 2
StatsMaxRows == 2
ChartMaxCols == 3
ChartMaxRows == 1
MaxLlmCharts == 4
MaxAsks == 2
MaxUploads == 2
MaxCategories == 16
MaxRenderCharts == 2
MaxLines == 3

\* ------------------------------------------------------ program constants
\* suggestions.get('charts', [])[:3] and charts[:3]
MaxSuggestions == 3
\* self.df.head(5)
SampleRows == 5
\* df.head(10)
PreviewRows == 10

\* ------------------------------------------------------------------ cells
Null == [kind |-> "null"]
Num(n) == [kind |-> "num", n |-> n]
Str(s) == [kind |-> "str", s |-> s]
Bool(b) == [kind |-> "bool", b |-> b]
TimeOfDay == [kind |-> "time"]
NoneVal == [kind |-> "none"]

IsNull(c) == c.kind = "null"

ColNames == <<"c1", "c2", "c3", "c4", "c5", "c6">>

Dtypes == {"float64", "object", "bool"}

CellsOf(dtype) ==
    CASE dtype = "float64" -> {Null, Num(1), Num(2)}
      [] dtype = "int64"   -> {Num(1), Num(2)}
      [] dtype = "object"  -> {Null, Str(""), Str("a")}
      [] dtype = "bool"    -> {Bool(TRUE), Bool(FALSE)}

\* All sequences of length n over S.
SeqsOfLen(S, n) == [1..n -> S]

ColumnsNamed(name, nrows) ==
    UNION { { [name |-> name, dtype |-> t, vals |-> v] : v \in SeqsOfLen(CellsOf(t), nrows) }
            : t \in Dtypes }

\* The Dataset with nrows rows whose column i is named ColNames[i] and has
\* the dtype and the cells of f[i].
Dataset(f, nrows) ==
    [nrows |-> nrows,
     cols |-> [i \in 1..Len(f) |->
                 [name |-> ColNames[i], dtype |-> f[i].dtype, vals |-> f[i].vals]]]

\* --------------------------------------------------------- DatasetAnalyzer
row_count(d) == d.nrows

column_count(d) == Len(d.cols)

columns(d) == [i \in 1..Len(d.cols) |-> d.cols[i].name]

ColumnSet(d) == { d.cols[i].name : i \in 1..Len(d.cols) }

Col(d, name) == CHOOSE c \in { d.cols[i] : i \in 1..Len(d.cols) } : c.name = name

\* self.df[col].isnull().sum()
CountNull(s) == Cardinality({ i \in 1..Len(s) : IsNull(s[i]) })

\* Python's round(): n/d to the nearest integer, ties to even.
RoundHalfEven(n, d) ==
    LET q == n \div d
        r == n % d
    IN  IF 2 * r > d \/ (2 * r = d /\ q % 2 = 1) THEN q + 1 ELSE q

\* round(total_empty / row_count * 100, 2) if row_count > 0 else 0
Percentage(total, rows) ==
    IF rows > 0 THEN RoundHalfEven(total * 10000, rows) ELSE 0

IsEmptyString(c) == c = Str("")

\* (self.df[col] == "").sum()
CountEmptyString(s) == Cardinality({ i \in 1..Len(s) : IsEmptyString(s[i]) })

\* A slip: the null count is left out of the total.
EmptyStatsOfColumn_NoNulls(d, c) ==
    LET null_count == CountNull(c.vals)
        empty_count == IF c.dtype = "object" THEN CountEmptyString(c.vals) ELSE 0
        total_empty == empty_count
    IN  [null_count |-> null_count,
         empty_string_count |-> empty_count,
         total_empty |-> total_empty,
         percentage |-> Percentage(total_empty, row_count(d))]

EmptyStatsOfColumn(d, c) ==
    LET null_count == CountNull(c.vals)
        empty_count == IF c.dtype = "object" THEN CountEmptyString(c.vals) ELSE 0
        total_empty == null_count + empty_count
    IN  [null_count |-> null_count,
         empty_string_count |-> empty_count,
         total_empty |-> total_empty,
         percentage |-> Percentage(total_empty, row_count(d))]

get_empty_data_stats(d) ==
    [name \in ColumnSet(d) |-> EmptyStatsOfColumn(d, Col(d, name))]

get_column_types(d) == [name \in ColumnSet(d) |-> Col(d, name).dtype]

\* select_dtypes(include=["number"]): the integer and floating dtypes, not bool.
IsNumberDtype(t) == t \in {"int64", "float64"}

IsNumberColumn(c) == IsNumberDtype(c.dtype)

NumericCols(d) == SelectSeq(d.cols, IsNumberColumn)

NonNull(c) == ~IsNull(c)

RECURSIVE SumCells(_)
SumCells(s) == IF s = <<>> THEN 0 ELSE Head(s).n + SumCells(Tail(s))

MinOf(S) == CHOOSE m \in S : \A x \in S : m <= x
MaxOf(S) == CHOOSE m \in S : \A x \in S : m >= x

\* One column of describe(): count, mean (as the pair <<sum, count>>), min and
\* max of the non-null values; NaN entries (no non-null value) become None.
\* std and the quartiles are left out.
DescribeColumn(c) ==
    LET present == SelectSeq(c.vals, NonNull)
        nums == { present[i].n : i \in 1..Len(present) }
    IN  IF present = <<>>
        THEN [count |-> Num(0), mean |-> NoneVal, min |-> NoneVal, max |-> NoneVal]
        ELSE [count |-> Num(Len(present)),
              mean |-> [kind |-> "ratio", num |-> SumCells(present), den |-> Len(present)],
              min |-> Num(MinOf(nums)),
              max |-> Num(MaxOf(nums))]

\* The empty dict.
EmptyMap == [name \in {} |-> NoneVal]

\* DataFrame.empty: some axis has length 0 (no column, or no row).
FrameEmpty(colseq, nrows) == Len(colseq) = 0 \/ nrows = 0

get_basic_stats(d) ==
    LET numeric_df == NumericCols(d)
        names == { numeric_df[i].name : i \in 1..Len(numeric_df) }
    IN  IF FrameEmpty(numeric_df, d.nrows)
        THEN EmptyMap
        ELSE [name \in names |-> DescribeColumn(Col(d, name))]

\* df.head(n).to_dict(orient="records"): the first n rows, each a dict.
HeadRecords(d, n) ==
    [r \in 1..(IF d.nrows < n THEN d.nrows ELSE n) |->
        [name \in ColumnSet(d) |-> Col(d, name).vals[r]]]

\* The dict get_summary builds when the cache is empty.
ComputeSummary(d) ==
    [row_count |-> row_count(d),
     column_count |-> column_count(d),
     columns |-> columns(d),
     column_types |-> get_column_types(d),
     empty_data |-> get_empty_data_stats(d),
     basic_stats |-> get_basic_stats(d),
     sample_data |-> HeadRecords(d, SampleRows)]

NoCache == NoneVal

\* A slip: the cache is never consulted, every call recomputes.
get_summary_Recompute(cache, d) ==
    [cache |-> ComputeSummary(d), computed |-> TRUE]

\* get_summary on an analyzer whose cache is `cache` and DataFrame is d: the
\* cache afterwards (which is what is returned) and whether it was computed.
get_summary(cache, d) ==
    IF cache = NoCache
    THEN [cache |-> ComputeSummary(d), computed |-> TRUE]
    ELSE [cache |-> cache, computed |-> FALSE]

\* The stats of one column that are printed: those that are not None.
PrintedStats(st) == { k \in DOMAIN st : st[k] # NoneVal }

\* get_summary_text's rendering of a summary, section by section: the header,
\* one line per column, the sample table (when there are sample rows) and
\* the statistics (when basic_stats is not empty, the non-None ones).
SummaryText(summary) ==
    [header |-> [rows |-> summary.row_count, columns |-> summary.column_count],
     column_lines |-> [i \in 1..Len(summary.columns) |->
                        [col |-> summary.columns[i],
                         dtype |-> summary.column_types[summary.columns[i]],
                         total_empty |-> summary.empty_data[summary.columns[i]].total_empty,
                         percentage |-> summary.empty_data[summary.columns[i]].percentage]],
     sample_table |-> IF Len(summary.sample_data) > 0
                      THEN [shown |-> TRUE, cols |-> summary.columns,
                            rows |-> summary.sample_data]
                      ELSE [shown |-> FALSE, cols |-> <<>>, rows |-> <<>>],
     statistics |-> [name \in DOMAIN summary.basic_stats |->
                        [k \in PrintedStats(summary.basic_stats[name]) |->
                            summary.basic_stats[name][k]]]]

\* ---------------------------------------------------------- ChartGenerator
Take(s, n) == SubSeq(s, 1, IF Len(s) < n THEN Len(s) ELSE n)

RECURSIVE MapNames(_)
MapNames(cs) == IF cs = <<>> THEN <<>> ELSE <<Head(cs).name>> \o MapNames(Tail(cs))

\* select_dtypes(include=['object', 'category'])
IsCategoricalColumn(c) == c.dtype \in {"object", "category"}

HistogramSpec(n) ==
    [type |-> "histogram", column |-> n,
     title |-> <<"Distribution of", n>>,
     description |-> <<"Shows the distribution of", n, "values">>]

BarSpec(x, y) ==
    [type |-> "bar", x |-> x, y |-> y,
     title |-> <<y, "by", x>>,
     description |-> <<"Compares", y, "across", x, "categories">>]

ScatterSpec(x, y) ==
    [type |-> "scatter", x |-> x, y |-> y,
     title |-> <<x, "vs", y>>,
     description |-> <<"Shows relationship between", x, "and", y>>]

\* A slip: the scatter rule fires with a single numeric column.
fallback_suggestions_ScatterOnOne(d) ==
    LET numeric_cols == MapNames(SelectSeq(d.cols, IsNumberColumn))
        categorical_cols == MapNames(SelectSeq(d.cols, IsCategoricalColumn))
        hist == IF numeric_cols # <<>> THEN <<HistogramSpec(numeric_cols[1])>> ELSE <<>>
        bar == IF categorical_cols # <<>> /\ numeric_cols # <<>>
               THEN <<BarSpec(categorical_cols[1], numeric_cols[1])>> ELSE <<>>
        scatter == IF Len(numeric_cols) >= 1
                   THEN <<ScatterSpec(numeric_cols[1], numeric_cols[Len(numeric_cols)])>>
                   ELSE <<>>
    IN  Take(hist \o bar \o scatter, MaxSuggestions)

fallback_suggestions(d) ==
    LET numeric_cols == MapNames(SelectSeq(d.cols, IsNumberColumn))
        categorical_cols == MapNames(SelectSeq(d.cols, IsCategoricalColumn))
        hist == IF numeric_cols # <<>> THEN <<HistogramSpec(numeric_cols[1])>> ELSE <<>>
        bar == IF categorical_cols # <<>> /\ numeric_cols # <<>>
               THEN <<BarSpec(categorical_cols[1], numeric_cols[1])>> ELSE <<>>
        scatter == IF Len(numeric_cols) >= 2
                   THEN <<ScatterSpec(numeric_cols[1], numeric_cols[2])>> ELSE <<>>
    IN  Take(hist \o bar \o scatter, MaxSuggestions)

(***************************************************************************)
(* The LLM's response text as a sequence of tokens: "w" is prose without   *)
(* braces, "{" and "}" are braces, "charts[" opens the member              *)
(* "charts": [ , "]" closes it, "k" is any other member, "s1", "s2", ...   *)
(* are the members of one chart object and "v" is a JSON string.           *)
(* Separators are not tokens.                                              *)
(***************************************************************************)
SpecToks == {"s1", "s2", "s3", "s4", "s5", "s6", "s7", "s8", "s9", "s10", "s11"}

Titled(config, t) ==
    config @@ [title |-> <<"llm", t>>, description |-> <<"llm", t>>]

\* The chart dict a chart object's members decode to.  Columns c1 and c2
\* are columns of the Datasets drawn from; zz is a column of none.
ChartOfTok(t) ==
    CASE t = "s1" -> Titled([type |-> "bar", x |-> "c1", y |-> "c2"], t)
      [] t = "s2" -> Titled([type |-> "pie", column |-> "c1", values |-> "c2"], t)
      [] t = "s3" -> Titled([type |-> "pie", column |-> "c1", values |-> "zz"], t)
      [] t = "s4" -> Titled([type |-> "bar", x |-> "c1"], t)
      [] t = "s5" -> Titled([type |-> "histogram", column |-> "zz"], t)
      [] t = "s6" -> Titled([type |-> "histogram", x |-> "c2"], t)
      [] t = "s7" -> Titled([type |-> "scatter", x |-> "c2", y |-> "c2"], t)
      [] t = "s8" -> Titled([type |-> "line", x |-> "zz", y |-> "c2"], t)
      [] t = "s9" -> Titled([type |-> "area"], t)
      [] t = "s10" -> Titled([type |-> "histogram", column |-> "c1"], t)
      [] t = "s11" -> [x |-> "c2"]

\* What the JSON string "v" decodes to: a str, not a dict.
StrEntry == [pytype |-> "str"]

NoMatch == <<>>

FirstIndexOf(s, t) ==
    IF \E i \in 1..Len(s) : s[i] = t
    THEN CHOOSE i \in 1..Len(s) : s[i] = t /\ \A j \in 1..(i - 1) : s[j] # t
    ELSE 0

LastIndexOf(s, t) ==
    IF \E i \in 1..Len(s) : s[i] = t
    THEN CHOOSE i \in 1..Len(s) : s[i] = t /\ \A j \in (i + 1)..Len(s) : s[j] # t
    ELSE 0

\* re.search(r'\{[\s\S]*\}', response): from the first "{" to the last "}".
re_search_braces(s) ==
    LET i == FirstIndexOf(s, "{")
        j == LastIndexOf(s, "}")
    IN  IF i = 0 \/ j < i THEN NoMatch ELSE SubSeq(s, i, j)

ParseFail == [ok |-> FALSE, has_charts |-> FALSE, charts |-> <<>>, rest |-> <<>>]

\* The entries of a "charts" list, up to its "]".
RECURSIVE ParseEntries(_)
ParseEntries(s) ==
    IF s = <<>> THEN ParseFail
    ELSE IF Head(s) = "]"
    THEN [ok |-> TRUE, has_charts |-> TRUE, charts |-> <<>>, rest |-> Tail(s)]
    ELSE IF Head(s) = "v"
    THEN LET r == ParseEntries(Tail(s))
         IN  IF r.ok
             THEN [ok |-> TRUE, has_charts |-> TRUE,
                   charts |-> <<StrEntry>> \o r.charts, rest |-> r.rest]
             ELSE ParseFail
    ELSE IF Len(s) >= 3 /\ s[1] = "{" /\ s[2] \in SpecToks /\ s[3] = "}"
    THEN LET r == ParseEntries(SubSeq(s, 4, Len(s)))
         IN  IF r.ok
             THEN [ok |-> TRUE, has_charts |-> TRUE,
                   charts |-> <<ChartOfTok(s[2])>> \o r.charts, rest |-> r.rest]
             ELSE ParseFail
    ELSE ParseFail

\* The members of an object; a repeated key keeps its last value.
RECURSIVE ParseMembers(_, _)
ParseMembers(s, obj) ==
    IF s = <<>> THEN obj
    ELSE IF Head(s) = "k" THEN ParseMembers(Tail(s), obj)
    ELSE IF Head(s) = "charts["
    THEN LET r == ParseEntries(Tail(s))
         IN  IF r.ok
             THEN ParseMembers(r.rest, [ok |-> TRUE, has_charts |-> TRUE,
                                        charts |-> r.charts, rest |-> <<>>])
             ELSE ParseFail
    ELSE ParseFail

\* json.loads of the matched text; ok = FALSE is a JSONDecodeError.
json_loads(m) ==
    IF Len(m) >= 2 /\ m[1] = "{" /\ m[Len(m)] = "}"
    THEN ParseMembers(SubSeq(m, 2, Len(m) - 1),
                      [ok |-> TRUE, has_charts |-> FALSE, charts |-> <<>>, rest |-> <<>>])
    ELSE ParseFail

LlmError == [kind |-> "error"]
LlmText(toks) == [kind |-> "text", toks |-> toks]

Suggested(list, fb) == [value |-> list, fallback |-> fb]

\* A slip: a malformed or missing JSON object yields no suggestions at all.
get_ai_suggestions_NoFallback(d, llm) ==
    IF llm.kind = "error"
    THEN Suggested(fallback_suggestions(d), TRUE)
    ELSE LET json_match == re_search_braces(llm.toks)
             suggestions == json_loads(json_match)
         IN  IF json_match # NoMatch /\ suggestions.ok
             THEN Suggested(Take(IF suggestions.has_charts
                                 THEN suggestions.charts ELSE <<>>, MaxSuggestions), FALSE)
             ELSE Suggested(<<>>, FALSE)

\* get_ai_suggestions with the client's outcome llm: the returned list, and
\* whether it came from _fallback_suggestions.
get_ai_suggestions(d, llm) ==
    IF llm.kind = "error"
    THEN Suggested(fallback_suggestions(d), TRUE)
    ELSE LET json_match == re_search_braces(llm.toks)
         IN  IF json_match = NoMatch
             THEN Suggested(fallback_suggestions(d), TRUE)
             ELSE LET suggestions == json_loads(json_match)
                  IN  IF ~suggestions.ok
                      THEN Suggested(fallback_suggestions(d), TRUE)
                      ELSE Suggested(Take(IF suggestions.has_charts
                                          THEN suggestions.charts ELSE <<>>,
                                          MaxSuggestions), FALSE)

\* ----------------------------------------------------- inputs of the advisor
FillCell(t) ==
    CASE t = "float64" -> Num(1)
      [] t = "int64"   -> Num(1)
      [] t = "object"  -> Str("a")
      [] t = "bool"    -> Bool(TRUE)

\* One Dataset per choice of column dtypes and row count.
DtypeDatasets(maxCols, maxRows) ==
    UNION { { [nrows |-> r,
               cols |-> [i \in 1..c |-> [name |-> ColNames[i], dtype |-> ts[i],
                                         vals |-> [j \in 1..r |-> FillCell(ts[i])]]]]
              : ts \in [1..c -> Dtypes], r \in 0..maxRows }
            : c \in 0..maxCols }

\* The text of one entry of a "charts" list.
EntryText(t) == IF t = "v" THEN <<"v">> ELSE <<"{", t, "}">>

RECURSIVE EntriesText(_)
EntriesText(cs) ==
    IF cs = <<>> THEN <<>> ELSE EntryText(Head(cs)) \o EntriesText(Tail(cs))

\* The text of a JSON object whose "charts" list holds the objects cs.
ObjText(cs) == <<"{", "charts[">> \o EntriesText(cs) \o <<"]", "}">>

\* The chart objects of the responses the advisor's suggestions are tried on.
AdvisorToks == {"s1", "s2"}

ChartLists == UNION { SeqsOfLen(AdvisorToks, n) : n \in 0..MaxLlmCharts }

LlmTexts ==
    { ObjText(cs) : cs \in ChartLists }
      \cup { <<"w">> \o ObjText(cs) \o <<"w">> : cs \in ChartLists }
      \cup { ObjText(cs) \o <<"w", "{", "w", "}">> : cs \in ChartLists }
      \cup { ObjText(cs) \o ObjText(<<"s2">>) : cs \in ChartLists }
      \cup { <<>>, <<"w">>, <<"}", "w", "{">>, <<"w", "{", "w">>,
             <<"{", "}">>, <<"w", "{", "k", "}">>, <<"{", "w", "}">>,
             <<"{", "charts[", "{", "s1", "}", "}">>,
             <<"{", "k", "charts[", "{", "s1">>,
             <<"{", "charts[", "]", "charts[", "{", "s2", "}", "]", "}">> }

LlmOutcomes == { LlmError } \cup { LlmText(t) : t \in LlmTexts }

\* ------------------------------------------------- GroqClient, ChatService
Message(role, content) == [role |-> role, content |-> content]

\* The content of a user or assistant turn.
Text(t) == [text |-> t]

\* SYSTEM_PROMPT_TEMPLATE.format(dataset_summary=analyzer.get_summary_text())
SystemPrompt(summary) ==
    [template |-> "SYSTEM_PROMPT_TEMPLATE", dataset_summary |-> SummaryText(summary)]

\* conversation_history=None
NoHistory == <<>>

\* A slip: the user message is put before the history.
chat_messages_UserFirst(user_message, system_prompt, history) ==
    (IF system_prompt # NoneVal THEN <<Message("system", system_prompt)>> ELSE <<>>)
      \o <<Message("user", user_message)>>
      \o (IF history # <<>> THEN history ELSE <<>>)

\* GroqClient.chat: the message list sent to chat.completions.create.
chat_messages(user_message, system_prompt, history) ==
    (IF system_prompt # NoneVal THEN <<Message("system", system_prompt)>> ELSE <<>>)
      \o (IF history # <<>> THEN history ELSE <<>>)
      \o <<Message("user", user_message)>>

\* GroqClient.chat returns response.choices[0].message.content.
chat_result(content) == content

\* history = self.conversation_history if include_history else None
ask_history(history, include_history) == IF include_history THEN history ELSE NoHistory

\* A slip: only the answer is recorded.
ask_append_AnswerOnly(history, question, response) ==
    history \o <<Message("assistant", response)>>

\* The two appends that follow the client's answer.
ask_append(history, question, response) ==
    history \o <<Message("user", question), Message("assistant", response)>>

Questions == {Text("q1"), Text("q2")}
Answers == {Text("a1"), Text("a2")}
Callers == {"t1", "t2"}

\* The DataFrames an analyzer under a Chat Session wraps: the 3-row
\* (text, number) table with one empty text and one missing number, a
\* one-cell table and the empty table.
DsScores ==
    [nrows |-> 3,
     cols |-> <<[name |-> "c1", dtype |-> "object", vals |-> <<Str("a"), Str(""), Str("a")>>],
                [name |-> "c2", dtype |-> "float64", vals |-> <<Num(1), Null, Num(2)>>]>>]
DsOne ==
    [nrows |-> 1, cols |-> <<[name |-> "c1", dtype |-> "float64", vals |-> <<Num(2)>>]>>]
DsEmpty == [nrows |-> 0, cols |-> <<>>]
\* A sheet with a column of times of day.
DsTimes ==
    [nrows |-> 2,
     cols |-> <<[name |-> "c1", dtype |-> "object", vals |-> <<TimeOfDay, TimeOfDay>>],
                [name |-> "c2", dtype |-> "float64", vals |-> <<Num(1), Num(2)>>]>>]

ChatDatasets == {DsScores, DsOne, DsEmpty}

\* ----------------------------------------- config, dataset_handler, server
\* os.getenv("GEMINI_API_KEY"): None when unset, else the text.
ApiKey(text) == [key |-> text]
ApiKeys == {NoneVal, ApiKey(""), ApiKey("your_api_key_here"), ApiKey("sk-1")}

\* A slip: the placeholder passes for a key.
validate_config_PlaceholderOk(key) == key # NoneVal /\ key # ApiKey("")

\* validate_config() does not raise; is_api_configured() is this as a bool.
validate_config(key) ==
    key # NoneVal /\ key # ApiKey("") /\ key # ApiKey("your_api_key_here")

\* SUPPORTED_EXTENSIONS' keys
SUPPORTED_EXTENSIONS == {".csv", ".xlsx", ".xls", ".json"}

\* str.lower() on the texts that occur.
Lower(text) ==
    CASE text = ".CSV"  -> ".csv"
      [] text = ".JSON" -> ".json"
      [] text = ".Xlsx" -> ".xlsx"
      [] text = "EXIT"  -> "exit"
      [] text = "Q"     -> "q"
      [] text = "Clear" -> "clear"
      [] OTHER -> text

\* SUPPORTED_EXTENSIONS[extension]
FileType(extension) ==
    CASE extension = ".csv"  -> "csv"
      [] extension = ".xlsx" -> "excel"
      [] extension = ".xls"  -> "excel"
      [] extension = ".json" -> "json"

\* What one call of a pandas reader does: it returns a DataFrame or raises.
Frame(d) == [kind |-> "frame", df |-> d]
Raises(exc) == [kind |-> "raise", exc |-> exc]

\* for encoding in ["utf-8", "latin-1", "cp1252"]
Encodings == <<"utf-8", "latin-1", "cp1252">>

\* The CSV branch from its i-th read on.  content[i] is what the i-th
\* read_csv call does: one per encoding, a UnicodeDecodeError moving on to the
\* next, then the read with errors="replace".
RECURSIVE ReadCsv(_, _)
ReadCsv(content, i) ==
    IF i <= Len(Encodings)
    THEN IF content[i] = Raises("UnicodeDecodeError")
         THEN ReadCsv(content, i + 1)
         ELSE content[i]
    ELSE content[i]

\* The body of the try block: the reader of the file type.
ReadFile(file_type, content) ==
    IF file_type = "csv" THEN ReadCsv(content, 1) ELSE content[1]

DatasetError(message, cause) ==
    [ok |-> FALSE, error |-> "DatasetError", message |-> message, cause |-> cause]

\* An exception that leaves load_dataset as it is.
Escapes(exc) == [ok |-> FALSE, error |-> exc, message |-> "", cause |-> NoneVal]

\* A slip: only parser errors are wrapped, other exceptions escape.
load_dataset_ParserErrorOnly(path) ==
    IF ~path.exists
    THEN DatasetError("File not found", NoneVal)
    ELSE IF Lower(path.suffix) \notin SUPPORTED_EXTENSIONS
    THEN DatasetError("Unsupported file type", NoneVal)
    ELSE LET read == ReadFile(FileType(Lower(path.suffix)), path.content)
         IN  IF read.kind = "frame" THEN [ok |-> TRUE, df |-> read.df]
             ELSE IF read.exc = "ParserError"
             THEN DatasetError("Failed to parse file", Raises(read.exc))
             ELSE Escapes(read.exc)

\* load_dataset on a path: whether it exists, its suffix, and what the
\* reader calls make of its content.
load_dataset(path) ==
    IF ~path.exists
    THEN DatasetError("File not found", NoneVal)
    ELSE IF Lower(path.suffix) \notin SUPPORTED_EXTENSIONS
    THEN DatasetError("Unsupported file type", NoneVal)
    ELSE LET read == ReadFile(FileType(Lower(path.suffix)), path.content)
         IN  IF read.kind = "frame" THEN [ok |-> TRUE, df |-> read.df]
             ELSE DatasetError("Failed to parse file", Raises(read.exc))

\* A file every read of which returns d; a file every read of which fails.
Parsed(d) == [i \in 1..(Len(Encodings) + 1) |-> Frame(d)]
Unparsable == [i \in 1..(Len(Encodings) + 1) |-> Raises("ParserError")]

\* The multipart bodies a client uploads: no "file" part, an empty file
\* name, or a named file with its content.
NoFilePart == [present |-> FALSE, filename |-> "", suffix |-> "", content |-> Unparsable]
Upload(filename, suffix, content) ==
    [present |-> TRUE, filename |-> filename, suffix |-> suffix, content |-> content]

Uploads ==
    { NoFilePart,
      Upload("", "", Unparsable),
      Upload("scores.csv", ".csv", Parsed(DsScores)),
      Upload("one.JSON", ".JSON", Parsed(DsOne)),
      Upload("broken.xlsx", ".xlsx", Unparsable),
      Upload("times.xlsx", ".xlsx", Parsed(DsTimes)),
      Upload("notes.txt", ".txt", Parsed(DsOne)) }

\* The answers of the endpoint to the chart prompt that are told apart here.
ServerLlmOutcomes ==
    { LlmError, LlmText(<<"w">>), LlmText(<<"w">> \o ObjText(<<"s1", "s2">>)) }

\* ------------------------------------------- ChartGenerator: the drawings
\* .head(15), .head(8), .head(100), .head(500)
BarGroups == 15
PieCategories == 8
LinePoints == 100
ScatterPoints == 500

\* Whether an entry of the suggestions is a dict.
IsDict(entry) == "pytype" \notin DOMAIN entry

Has(config, key) == key \in DOMAIN config

\* config.get(key, default)
Get(config, key, default) == IF Has(config, key) THEN config[key] ELSE default

\* config.get(k1) or config.get(k2), as the set of the names it gives.
GetOr(config, k1, k2) ==
    IF Has(config, k1) THEN {config[k1]}
    ELSE IF Has(config, k2) THEN {config[k2]} ELSE {}

\* x_col and x_col in self.df.columns
RefersTo(d, config, key) == Has(config, key) /\ config[key] \in ColumnSet(d)

\* series.head(k) of a series of n entries has this many.
HeadCount(n, k) == IF n < k THEN n ELSE k

\* The keys of groupby(name) and of value_counts(): the distinct non-null values.
Groups(d, name) ==
    { Col(d, name).vals[i] : i \in { j \in 1..d.nrows : ~IsNull(Col(d, name).vals[j]) } }

\* The rows df[[x, y]].dropna() keeps.
CompleteRows(d, x, y) ==
    { i \in 1..d.nrows : ~IsNull(Col(d, x).vals[i]) /\ ~IsNull(Col(d, y).vals[i]) }

\* pd.api.types.is_numeric_dtype
IsNumericDtype(t) == t \in {"int64", "float64", "bool"}

\* What a drawing routine puts on the axes: the plotting call it makes and
\* how many bars, wedges, points or values it is given.
Drawn(call_, items) == [call |-> call_, items |-> items]
NoDrawing == Drawn("none", 0)

create_bar_chart(d, config) ==
    IF RefersTo(d, config, "x") /\ RefersTo(d, config, "y")
    THEN Drawn("bar", HeadCount(Cardinality(Groups(d, config.x)), BarGroups))
    ELSE NoDrawing

create_line_chart(d, config) ==
    IF RefersTo(d, config, "x") /\ RefersTo(d, config, "y")
    THEN Drawn("plot", HeadCount(Cardinality(CompleteRows(d, config.x, config.y)), LinePoints))
    ELSE NoDrawing

create_histogram(d, config) ==
    LET column == GetOr(config, "column", "x")
    IN  IF column \cap ColumnSet(d) # {}
        THEN LET c == Col(d, CHOOSE n \in column : TRUE)
             IN  IF IsNumericDtype(c.dtype)
                 THEN Drawn("hist", Len(SelectSeq(c.vals, NonNull)))
                 ELSE NoDrawing
        ELSE NoDrawing

create_scatter_chart(d, config) ==
    IF RefersTo(d, config, "x") /\ RefersTo(d, config, "y")
    THEN Drawn("scatter",
               HeadCount(Cardinality(CompleteRows(d, config.x, config.y)), ScatterPoints))
    ELSE NoDrawing

\* A slip: the pie takes as many categories as the bar chart takes groups.
create_pie_chart_AsBar(d, config) ==
    LET column == GetOr(config, "column", "x")
    IN  IF column \cap ColumnSet(d) # {}
        THEN Drawn("pie", HeadCount(Cardinality(Groups(d, CHOOSE n \in column : TRUE)),
                                    BarGroups))
        ELSE NoDrawing

\* With or without a values column the wedges are the first 8 categories.
create_pie_chart(d, config) ==
    LET column == GetOr(config, "column", "x")
    IN  IF column \cap ColumnSet(d) # {}
        THEN Drawn("pie", HeadCount(Cardinality(Groups(d, CHOOSE n \in column : TRUE)),
                                    PieCategories))
        ELSE NoDrawing

\* generate_chart's dispatch on the chart type.
Drawing(d, config) ==
    LET chart_type == Get(config, "type", "histogram")
    IN  CASE chart_type = "bar" -> create_bar_chart(d, config)
          [] chart_type = "line" -> create_line_chart(d, config)
          [] chart_type = "histogram" -> create_histogram(d, config)
          [] chart_type = "scatter" -> create_scatter_chart(d, config)
          [] chart_type = "pie" -> create_pie_chart(d, config)
          [] OTHER -> IF NumericCols(d) # <<>>
                      THEN Drawn("hist", Len(SelectSeq(NumericCols(d)[1].vals, NonNull)))
                      ELSE NoDrawing

\* Whether drawing this entry calls into pandas and the plotting library
\* with data, which may raise.
MayRaise(d, entry) == IsDict(entry) /\ Drawing(d, entry).call # "none"

Returned(value) == [raised |-> FALSE, exc |-> "", value |-> value]
Raised(exc) == [raised |-> TRUE, exc |-> exc, value |-> NoneVal]

\* The record generate_chart returns when nothing raised.
ChartRecord(d, config) ==
    [image |-> Drawing(d, config),
     title |-> Get(config, "title", <<"Chart">>),
     description |-> Get(config, "description", <<>>),
     type |-> Get(config, "type", "histogram")]

\* A slip: a chart with nothing drawn on it is dropped.
generate_chart_OmitEmpty(d, config, raises) ==
    IF ~IsDict(config) THEN Raised("AttributeError")
    ELSE IF raises \/ Drawing(d, config).call = "none" THEN Returned(NoneVal)
    ELSE Returned(ChartRecord(d, config))

\* generate_chart: the three config.get calls come before the try block;
\* inside it an exception (raises) is caught and None returned.
generate_chart(d, config, raises) ==
    IF ~IsDict(config) THEN Raised("AttributeError")
    ELSE IF raises THEN Returned(NoneVal)
    ELSE Returned(ChartRecord(d, config))

\* generate_charts' loop from the i-th suggestion on, charts being the list
\* so far; the drawings numbered in `failed` raise.
RECURSIVE RenderFrom(_, _, _, _, _)
RenderFrom(d, configs, failed, i, charts) ==
    IF i > Len(configs) THEN Returned(charts)
    ELSE LET chart == generate_chart(d, configs[i], i \in failed)
         IN  IF chart.raised THEN chart
             ELSE RenderFrom(d, configs, failed, i + 1,
                             IF chart.value # NoneVal THEN Append(charts, chart.value)
                             ELSE charts)

generate_charts(d, suggestions, failed) == RenderFrom(d, suggestions, failed, 1, <<>>)

\* session_data['analyzer'].get_summary() as the upload response shows it.
SummaryBody(summary) ==
    [rows |-> summary.row_count,
     columns |-> summary.column_count,
     column_types |-> summary.column_types,
     empty_data |-> summary.empty_data,
     basic_stats |-> summary.basic_stats]

\* ------------------------------------------------------------------ state
VARIABLES
    df,                     \* DatasetAnalyzer.df, the DataFrame the analyzer wraps
    summary_cache,          \* DatasetAnalyzer._summary_cache
    conversation_history,   \* ChatService.conversation_history
    call,                   \* per caller: the ask it has in flight, if any
    ret,                    \* the last completed call and what it returned
    log,                    \* the (question, answer) pairs of the asks answered
                            \* since the last clear_history
    n_computed,             \* how many times the summary dict was built
    first_summary,          \* the summary dict built first
    cli,                    \* the command-line front end: where main() is, what it
                            \* has read, printed and sent so far
    api_key,                \* config.GEMINI_API_KEY, read from the environment
    api_configured,         \* whether validate_config() passes (fixed at import)
    session_state,          \* app.py: st.session_state of the one browser session
    session_data,           \* server.session_data
    analyzers,              \* the DatasetAnalyzer objects the server has made,
                            \* by identity: <<[df, cache], ...>>
    tmp_files,              \* the temporary files that exist, by upload number
    n_uploads,              \* how many uploads have written a temporary file
    req,                    \* the HTTP request being handled, if any
    endpoint                \* the LLM endpoint: requests received from the
                            \* operation in progress, requests not yet ended

chatVars == <<summary_cache, conversation_history, call, log, n_computed, first_summary, cli>>

serverVars == <<api_key, api_configured, session_state, session_data, analyzers, tmp_files, n_uploads, req, endpoint>>

vars == <<df, ret, chatVars, serverVars>>

NoCall == [op |-> "none"]

IdleCall == [pc |-> "idle"]

\* main() is not running.
CliOff == [pc |-> "off", out |-> <<>>]

\* st.session_state before the script has run.
NoSessionState ==
    [df |-> NoneVal, analyzer |-> NoneVal, chat_service |-> NoneVal,
     messages |-> <<>>, api_valid |-> FALSE]

\* The state of a fresh analyzer and Chat Session.
FreshChat ==
    /\ summary_cache = NoCache
    /\ conversation_history = <<>>
    /\ call = [t \in Callers |-> IdleCall]
    /\ log = <<>>
    /\ n_computed = 0
    /\ first_summary = NoneVal

NoRequest == [pc |-> "idle"]

\* A reference to the analyzer object analyzers[id]; a file name.
Ref(id) == [id |-> id]
Name(filename) == [name |-> filename]

EmptySession ==
    [analyzer |-> NoneVal, chat_service |-> NoneVal, filename |-> NoneVal, df |-> NoneVal]

QuietEndpoint == [op_requests |-> 0, outstanding |-> 0]

\* One request is submitted to the endpoint; one request ends.
Submit(e) == [op_requests |-> e.op_requests + 1, outstanding |-> e.outstanding + 1]
Finish(e) == [e EXCEPT !.outstanding = e.outstanding - 1]

\* The state of a server that has handled no request.
FreshServer ==
    /\ session_data = EmptySession
    /\ analyzers = <<>>
    /\ tmp_files = {}
    /\ n_uploads = 0
    /\ req = NoRequest
    /\ endpoint = QuietEndpoint

\* ---------------------------------------- the Summarizer's pure operations
\* Each run draws one Dataset and makes one call on it.
InitStats ==
    /\ \E c \in 0..StatsMaxCols :
          \E r \in (IF c = 0 THEN {0} ELSE 0..StatsMaxRows) :
             \E f \in [1..c -> ColumnsNamed("c", r)] : df = Dataset(f, r)
    /\ ret = NoCall
    /\ FreshChat
    /\ FreshServer
    /\ cli = CliOff
    /\ session_state = NoSessionState
    /\ api_key = ApiKey("sk-1")
    /\ api_configured = validate_config(api_key)

CallEmptyStats ==
    /\ ret = NoCall
    /\ ret' = [op |-> "get_empty_data_stats", value |-> get_empty_data_stats(df)]
    /\ UNCHANGED <<df, chatVars, serverVars>>

CallBasicStats ==
    /\ ret = NoCall
    /\ ret' = [op |-> "get_basic_stats", value |-> get_basic_stats(df)]
    /\ UNCHANGED <<df, chatVars, serverVars>>

CallColumnTypes ==
    /\ ret = NoCall
    /\ ret' = [op |-> "get_column_types", value |-> get_column_types(df)]
    /\ UNCHANGED <<df, chatVars, serverVars>>

NextStats == CallEmptyStats \/ CallBasicStats \/ CallColumnTypes

SpecStats == InitStats /\ [][NextStats]_vars

\* ------------------------------------------- the Chart Advisor's suggestions
InitCharts ==
    /\ df \in DtypeDatasets(ChartMaxCols, ChartMaxRows)
    /\ ret = NoCall
    /\ FreshChat
    /\ FreshServer
    /\ cli = CliOff
    /\ session_state = NoSessionState
    /\ api_key = ApiKey("sk-1")
    /\ api_configured = validate_config(api_key)

CallFallback ==
    /\ ret = NoCall
    /\ ret' = [op |-> "_fallback_suggestions", value |-> fallback_suggestions(df)]
    /\ UNCHANGED <<df, chatVars, serverVars>>

CallGetAiSuggestions ==
    \E llm \in LlmOutcomes :
        /\ ret = NoCall
        /\ ret' = [op |-> "get_ai_suggestions", llm |-> llm,
                   out |-> get_ai_suggestions(df, llm)]
        /\ UNCHANGED <<df, chatVars, serverVars>>

NextCharts == CallFallback \/ CallGetAiSuggestions

SpecCharts == InitCharts /\ [][NextCharts]_vars

\* ----------------------------------------------------- the Dataset Loader
\* The suffixes of the paths tried and what a reader call may do.
Suffixes == {".csv", ".CSV", ".xlsx", ".Xlsx", ".xls", ".json", ".JSON", ".txt", ""}

ReadOutcomes ==
    {Frame(DsOne), Raises("UnicodeDecodeError"), Raises("ParserError"), Raises("TypeError")}

Paths ==
    [exists : BOOLEAN, suffix : Suffixes,
     content : [1..(Len(Encodings) + 1) -> ReadOutcomes]]

InitLoad ==
    /\ df = DsEmpty
    /\ ret = NoCall
    /\ FreshChat
    /\ FreshServer
    /\ cli = CliOff
    /\ session_state = NoSessionState
    /\ api_key = ApiKey("sk-1")
    /\ api_configured = validate_config(api_key)

\* Each run makes one call of load_dataset on one path.
CallLoad ==
    \E path \in Paths :
        /\ ret = NoCall
        /\ ret' = [op |-> "load_dataset", path |-> path, value |-> load_dataset(path)]
        /\ UNCHANGED <<df, chatVars, serverVars>>

NextLoad == CallLoad

SpecLoad == InitLoad /\ [][NextLoad]_vars

\* ------------------------------------------- the Chart Advisor's rendering
CategoryNames ==
    <<"k1", "k2", "k3", "k4", "k5", "k6", "k7", "k8", "k9", "k10", "k11", "k12",
      "k13", "k14", "k15", "k16", "k17", "k18", "k19", "k20">>

\* n rows, a text column c1 of n different categories and a numeric column c2.
WideDataset(n) ==
    [nrows |-> n,
     cols |-> <<[name |-> "c1", dtype |-> "object",
                 vals |-> [i \in 1..n |-> Str(CategoryNames[i])]],
                [name |-> "c2", dtype |-> "float64", vals |-> [i \in 1..n |-> Num(1)]]>>]

RenderDatasets == {DsScores, DsEmpty} \cup { WideDataset(n) : n \in 0..MaxCategories }

\* The answers of the endpoint to the chart prompt: an error, or a JSON
\* object whose "charts" list holds chart objects and strings.
RenderLlmOutcomes ==
    { LlmError }
      \cup { LlmText(ObjText(cs)) :
               cs \in UNION { SeqsOfLen(SpecToks \cup {"v"}, n) : n \in 0..MaxRenderCharts } }

InitRender ==
    /\ df \in RenderDatasets
    /\ ret = NoCall
    /\ FreshChat
    /\ FreshServer
    /\ cli = CliOff
    /\ session_state = NoSessionState
    /\ api_key = ApiKey("sk-1")
    /\ api_configured = validate_config(api_key)

\* Each run makes one call.  generate_chart on one chart dict; `raises` says
\* whether the drawing raises.
CallGenerateChart ==
    \E t \in SpecToks, raises \in BOOLEAN :
        /\ ret = NoCall
        /\ raises => MayRaise(df, ChartOfTok(t))
        /\ ret' = [op |-> "generate_chart", config |-> ChartOfTok(t), raises |-> raises,
                   out |-> generate_chart(df, ChartOfTok(t), raises)]
        /\ UNCHANGED <<df, chatVars, serverVars>>

\* generate_charts: the suggestions are asked for, then drawn one by one;
\* the drawings numbered in `failed` raise.
CallGenerateCharts ==
    \E llm \in RenderLlmOutcomes, failed \in SUBSET (1..MaxSuggestions) :
        LET suggestions == get_ai_suggestions(df, llm).value
        IN  /\ ret = NoCall
            /\ failed \subseteq { i \in 1..Len(suggestions) : MayRaise(df, suggestions[i]) }
            /\ ret' = [op |-> "generate_charts", suggestions |-> suggestions,
                       failed |-> failed,
                       out |-> generate_charts(df, suggestions, failed)]
            /\ UNCHANGED <<df, chatVars, serverVars>>

NextRender == CallGenerateChart \/ CallGenerateCharts

SpecRender == InitRender /\ [][NextRender]_vars

\* ------------------------------------------- the Chat Session and analyzer
InitChat ==
    /\ df \in ChatDatasets
    /\ ret = NoCall
    /\ FreshChat
    /\ FreshServer
    /\ cli = CliOff
    /\ session_state = NoSessionState
    /\ api_key = ApiKey("sk-1")
    /\ api_configured = validate_config(api_key)

Idle == \A t \in Callers : call[t].pc = "idle"

\* What get_summary() would return if it were called now.
SummaryNow == get_summary(summary_cache, df).cache

\* ask, up to the request: the history argument is chosen, the system prompt
\* is built (which fills the summary cache), the client assembles the
\* message list and submits it.
AskSend(t, question, include_history) ==
    LET s == get_summary(summary_cache, df)
    IN  /\ call[t].pc = "idle"
        /\ Len(conversation_history) < 2 * MaxAsks
        /\ summary_cache' = s.cache
        /\ n_computed' = n_computed + (IF s.computed THEN 1 ELSE 0)
        /\ first_summary' = IF s.computed /\ n_computed = 0 THEN s.cache ELSE first_summary
        /\ call' = [call EXCEPT ![t] =
              [pc |-> "waiting",
               question |-> question,
               include_history |-> include_history,
               before |-> conversation_history,
               summary_before |-> SummaryNow,
               messages |-> chat_messages(question, SystemPrompt(s.cache),
                                          ask_history(conversation_history,
                                                      include_history))]]
        /\ UNCHANGED <<df, conversation_history, log, ret, cli, serverVars>>

\* The endpoint answers `content`: both turns are appended, the answer returned.
AskReturn(t, content) ==
    /\ call[t].pc = "waiting"
    /\ conversation_history' =
          ask_append(conversation_history, call[t].question, chat_result(content))
    /\ log' = Append(log, [q |-> call[t].question, a |-> content])
    /\ ret' = [op |-> "ask", caller |-> t, raised |-> FALSE,
               value |-> chat_result(content), response |-> content,
               question |-> call[t].question,
               include_history |-> call[t].include_history,
               before |-> call[t].before,
               summary_before |-> call[t].summary_before]
    /\ call' = [call EXCEPT ![t] = IdleCall]
    /\ UNCHANGED <<df, summary_cache, n_computed, first_summary, cli, serverVars>>

\* A slip: the question is put on the Conversation before the request.
AskRaise_KeepsQuestion(t) ==
    /\ call[t].pc = "waiting"
    /\ conversation_history' =
          Append(conversation_history, Message("user", call[t].question))
    /\ ret' = [op |-> "ask", caller |-> t, raised |-> TRUE,
               value |-> NoneVal, response |-> NoneVal,
               question |-> call[t].question,
               include_history |-> call[t].include_history,
               before |-> call[t].before,
               summary_before |-> call[t].summary_before]
    /\ call' = [call EXCEPT ![t] = IdleCall]
    /\ UNCHANGED <<df, summary_cache, log, n_computed, first_summary, cli, serverVars>>

\* The request fails: the client raises RuntimeError, which ask lets through.
AskRaise(t) ==
    /\ call[t].pc = "waiting"
    /\ ret' = [op |-> "ask", caller |-> t, raised |-> TRUE,
               value |-> NoneVal, response |-> NoneVal,
               question |-> call[t].question,
               include_history |-> call[t].include_history,
               before |-> call[t].before,
               summary_before |-> call[t].summary_before]
    /\ call' = [call EXCEPT ![t] = IdleCall]
    /\ UNCHANGED <<df, summary_cache, conversation_history, log, n_computed, first_summary, cli, serverVars>>

\* A slip: the reset also drops the analyzer's cache.
ClearHistory_DropsCache ==
    /\ conversation_history' = <<>>
    /\ summary_cache' = NoCache
    /\ log' = <<>>
    /\ ret' = [op |-> "clear_history",
               history_before |-> conversation_history,
               cache_before |-> summary_cache,
               df_before |-> df,
               after_ask |-> ret.op = "ask",
               summary_before_ask |-> IF ret.op = "ask" THEN ret.summary_before ELSE NoneVal]
    /\ UNCHANGED <<df, call, n_computed, first_summary, cli, serverVars>>

ClearHistory ==
    /\ conversation_history' = <<>>
    /\ log' = <<>>
    /\ ret' = [op |-> "clear_history",
               history_before |-> conversation_history,
               cache_before |-> summary_cache,
               df_before |-> df,
               after_ask |-> ret.op = "ask",
               summary_before_ask |-> IF ret.op = "ask" THEN ret.summary_before ELSE NoneVal]
    /\ UNCHANGED <<df, summary_cache, call, n_computed, first_summary, cli, serverVars>>

\* analyzer.get_summary() called directly.
GetSummary ==
    LET s == get_summary(summary_cache, df)
    IN  /\ summary_cache' = s.cache
        /\ n_computed' = n_computed + (IF s.computed THEN 1 ELSE 0)
        /\ first_summary' = IF s.computed /\ n_computed = 0 THEN s.cache ELSE first_summary
        /\ ret' = [op |-> "get_summary", value |-> s.cache]
        /\ UNCHANGED <<df, conversation_history, call, log, cli, serverVars>>

\* The DataFrame is changed in place behind the analyzer's back.
MutateDf ==
    \E d \in ChatDatasets \ {df} :
        /\ df' = d
        /\ ret' = [op |-> "mutate"]
        /\ UNCHANGED <<chatVars, serverVars>>

\* One call at a time: a call starts only when no ask is in flight.
NextChat ==
    \/ \E t \in Callers, q \in Questions, h \in BOOLEAN : Idle /\ AskSend(t, q, h)
    \/ \E t \in Callers, a \in Answers : AskReturn(t, a)
    \/ \E t \in Callers : AskRaise(t)
    \/ Idle /\ ClearHistory
    \/ Idle /\ GetSummary
    \/ Idle /\ MutateDf

SpecChat == InitChat /\ [][NextChat]_vars

\* ------------------------------------- overlapping asks on one Chat Session
\* The server handles requests in threads, so two calls of ask on the one
\* ChatService can overlap.  Between the answer of the endpoint and the
\* return of ask lie two appends, and another thread can run between them.

\* The endpoint answers caller t: ask appends the user turn.
AskReceive(t, content) ==
    /\ call[t].pc = "waiting"
    /\ conversation_history' =
          Append(conversation_history, Message("user", call[t].question))
    /\ call' = [call EXCEPT ![t] = [@ EXCEPT !.pc = "appending"] @@ [response |-> content]]
    /\ UNCHANGED <<df, summary_cache, log, n_computed, first_summary, ret, cli, serverVars>>

\* A slip: the second append repeats the question.
AskFinish_RepeatsQuestion(t) ==
    /\ call[t].pc = "appending"
    /\ conversation_history' =
          Append(conversation_history, Message("user", call[t].question))
    /\ log' = Append(log, [q |-> call[t].question, a |-> call[t].response,
                           before |-> call[t].before])
    /\ ret' = [op |-> "ask", caller |-> t, raised |-> FALSE,
               value |-> chat_result(call[t].response), response |-> call[t].response,
               question |-> call[t].question,
               include_history |-> call[t].include_history,
               before |-> call[t].before,
               summary_before |-> call[t].summary_before]
    /\ call' = [call EXCEPT ![t] = IdleCall]
    /\ UNCHANGED <<df, summary_cache, n_computed, first_summary, cli, serverVars>>

\* ask appends the assistant turn and returns the answer.
AskFinish(t) ==
    /\ call[t].pc = "appending"
    /\ conversation_history' =
          Append(conversation_history, Message("assistant", chat_result(call[t].response)))
    /\ log' = Append(log, [q |-> call[t].question, a |-> call[t].response,
                           before |-> call[t].before])
    /\ ret' = [op |-> "ask", caller |-> t, raised |-> FALSE,
               value |-> chat_result(call[t].response), response |-> call[t].response,
               question |-> call[t].question,
               include_history |-> call[t].include_history,
               before |-> call[t].before,
               summary_before |-> call[t].summary_before]
    /\ call' = [call EXCEPT ![t] = IdleCall]
    /\ UNCHANGED <<df, summary_cache, n_computed, first_summary, cli, serverVars>>

\* The asks answered or in flight.
AsksStarted == Len(log) + Cardinality({ t \in Callers : call[t].pc # "idle" })

\* The handler of POST /api/chat in a thread of its own: ask(message) with
\* the history, whatever the other thread is doing.
ChatThreadAsk(t, message) ==
    /\ AsksStarted < MaxAsks
    /\ AskSend(t, message, TRUE)

InitOverlap ==
    /\ df = DsScores
    /\ ret = NoCall
    /\ FreshChat
    /\ FreshServer
    /\ cli = CliOff
    /\ session_state = NoSessionState
    /\ api_key = ApiKey("sk-1")
    /\ api_configured = validate_config(api_key)

NextOverlap ==
    \/ \E t \in Callers, q \in Questions : ChatThreadAsk(t, q)
    \/ \E t \in Callers, a \in Answers : AskReceive(t, a)
    \/ \E t \in Callers : AskFinish(t)
    \/ \E t \in Callers : AskRaise(t)

SpecOverlap == InitOverlap /\ [][NextOverlap]_vars

\* ------------------------------------------------------ the HTTP front end
InitServer ==
    /\ df = DsEmpty
    /\ ret = NoCall
    /\ FreshChat
    /\ FreshServer
    /\ cli = CliOff
    /\ session_state = NoSessionState
    /\ api_key \in ApiKeys
    /\ api_configured = validate_config(api_key)

HttpError(op, status, message) ==
    [op |-> op, status |-> status, error |-> message,
     requests |-> 0, charts |-> <<>>]

\* jsonify can encode the preview rows: numbers, strings, booleans and NaN
\* are encoded, a datetime.time is not (TypeError).
JsonSerializable(records) ==
    \A r \in 1..Len(records) : \A name \in DOMAIN records[r] : records[r][name].kind # "time"

\* The end of upload_file: the JSON response, or the 500 of the outer
\* handler when building it raises.
UploadResponse(f, d, summary, requests, charts) ==
    IF JsonSerializable(HeadRecords(d, PreviewRows))
    THEN [op |-> "upload", status |-> 200, input |-> f,
          filename |-> f.filename,
          summary |-> SummaryBody(summary),
          preview |-> HeadRecords(d, PreviewRows),
          requests |-> requests, charts |-> charts]
    ELSE [op |-> "upload", status |-> 500, input |-> f,
          error |-> "Failed to process file",
          requests |-> requests, charts |-> <<>>]

\* A slip: the temporary file is removed whatever the parse does.
TempFilesAfterParse_Always(files, tmp, loaded) == files

\* The temporary files left when the with block is left: tmp is written,
\* parsed, and unlinked only when load_dataset returned.
TempFilesAfterParse(files, tmp, loaded) ==
    IF loaded.ok THEN files ELSE files \cup {tmp}

\* POST /api/upload, up to the request to the LLM (or to the response, when
\* there is none): the checks on the file part, the temporary file, the
\* parse, the session record, the summary, the chart prompt.
UploadBegin(f) ==
    /\ req.pc = "idle"
    /\ n_uploads < MaxUploads
    /\ LET ext == Lower(f.suffix)
           tmp == n_uploads + 1
           loaded == load_dataset([exists |-> TRUE, suffix |-> ext, content |-> f.content])
           made == get_summary(NoCache, loaded.df)
           id == Len(analyzers) + 1
       IN  IF ~f.present
           THEN /\ ret' = HttpError("upload", 400, "No file provided") @@ [input |-> f, before |-> session_data]
                /\ endpoint' = QuietEndpoint
                /\ UNCHANGED <<session_data, analyzers, tmp_files, n_uploads, req>>
           ELSE IF f.filename = ""
           THEN /\ ret' = HttpError("upload", 400, "No file selected") @@ [input |-> f, before |-> session_data]
                /\ endpoint' = QuietEndpoint
                /\ UNCHANGED <<session_data, analyzers, tmp_files, n_uploads, req>>
           ELSE IF ext \notin SUPPORTED_EXTENSIONS
           THEN /\ ret' = HttpError("upload", 400, "Unsupported file type") @@ [input |-> f, before |-> session_data]
                /\ endpoint' = QuietEndpoint
                /\ UNCHANGED <<session_data, analyzers, tmp_files, n_uploads, req>>
           ELSE IF ~loaded.ok
           THEN \* load_dataset raised: os.unlink is skipped
                /\ ret' = HttpError("upload", 400, loaded.message) @@ [input |-> f, before |-> session_data]
                /\ endpoint' = QuietEndpoint
                /\ tmp_files' = TempFilesAfterParse(tmp_files, tmp, loaded)
                /\ n_uploads' = tmp
                /\ UNCHANGED <<session_data, analyzers, req>>
           ELSE /\ n_uploads' = tmp
                /\ tmp_files' = TempFilesAfterParse(tmp_files, tmp, loaded)
                /\ analyzers' = Append(analyzers, [df |-> loaded.df, cache |-> made.cache])
                /\ session_data' =
                      [analyzer |-> Ref(id),
                       filename |-> Name(f.filename),
                       df |-> loaded.df,
                       chat_service |->
                          IF api_configured
                          THEN [analyzer |-> Ref(id), conversation_history |-> <<>>]
                          ELSE session_data.chat_service]
                /\ IF api_configured
                   THEN /\ req' = [pc |-> "upload_llm", input |-> f, before |-> session_data,
                                   filename |-> f.filename,
                                   df |-> loaded.df, summary |-> made.cache]
                        /\ endpoint' = Submit(QuietEndpoint)
                        /\ UNCHANGED ret
                   ELSE /\ ret' = UploadResponse(f, loaded.df, made.cache, 0, <<>>)
                                     @@ [before |-> session_data]
                        /\ endpoint' = QuietEndpoint
                        /\ UNCHANGED req
    /\ UNCHANGED <<df, chatVars, api_key, api_configured, session_state>>

\* The chart request ends with outcome `outcome`; the suggestions are drawn
\* (the drawings numbered in `failed` raise) and the response is sent.
UploadLlmDone(outcome, failed) ==
    /\ req.pc = "upload_llm"
    /\ LET suggestions == get_ai_suggestions(req.df, outcome).value
           drawn == generate_charts(req.df, suggestions, failed)
       IN  /\ failed \subseteq { i \in 1..Len(suggestions) : MayRaise(req.df, suggestions[i]) }
           /\ ret' = UploadResponse(req.input, req.df, req.summary, endpoint.op_requests,
                                    IF drawn.raised THEN <<>> ELSE drawn.value)
                        @@ [before |-> req.before]
    /\ endpoint' = Finish(endpoint)
    /\ req' = NoRequest
    /\ UNCHANGED <<df, chatVars, api_key, api_configured, session_state, session_data, analyzers, tmp_files, n_uploads>>

\* POST /api/chat, up to the request to the LLM (or to the 400 response).
ChatBegin(message) ==
    /\ req.pc = "idle"
    /\ IF session_data.chat_service = NoneVal
       THEN /\ ret' = HttpError("chat", 400, "Please upload a dataset first")
            /\ endpoint' = QuietEndpoint
            /\ UNCHANGED <<analyzers, req>>
       ELSE IF message = NoneVal
       THEN /\ ret' = HttpError("chat", 400, "No message provided")
            /\ endpoint' = QuietEndpoint
            /\ UNCHANGED <<analyzers, req>>
       ELSE LET cs == session_data.chat_service
                a == analyzers[cs.analyzer.id]
                s == get_summary(a.cache, a.df)
            IN  /\ Len(cs.conversation_history) < 2 * MaxAsks
                /\ analyzers' = [analyzers EXCEPT ![cs.analyzer.id].cache = s.cache]
                /\ req' = [pc |-> "chat_llm", question |-> message,
                           messages |-> chat_messages(message, SystemPrompt(s.cache),
                                            ask_history(cs.conversation_history, TRUE))]
                /\ endpoint' = Submit(QuietEndpoint)
                /\ UNCHANGED ret
    /\ UNCHANGED <<df, chatVars, api_key, api_configured, session_state, session_data, tmp_files, n_uploads>>

\* The endpoint answers: ask appends both turns, the handler answers 200.
ChatLlmReturn(content) ==
    /\ req.pc = "chat_llm"
    /\ session_data' = [session_data EXCEPT !.chat_service.conversation_history =
          ask_append(session_data.chat_service.conversation_history,
                     req.question, chat_result(content))]
    /\ ret' = [op |-> "chat", status |-> 200, response |-> chat_result(content),
               requests |-> endpoint.op_requests, charts |-> <<>>]
    /\ endpoint' = Finish(endpoint)
    /\ req' = NoRequest
    /\ UNCHANGED <<df, chatVars, api_key, api_configured, session_state, analyzers, tmp_files, n_uploads>>

\* A slip: a failed request is submitted once more before giving up.
ChatLlmRaise_Retry ==
    /\ req.pc = "chat_llm"
    /\ IF endpoint.op_requests < 2
       THEN /\ endpoint' = Submit(Finish(endpoint))
            /\ UNCHANGED <<ret, req>>
       ELSE /\ ret' = [op |-> "chat", status |-> 500, error |-> "AI error",
                       requests |-> endpoint.op_requests, charts |-> <<>>]
            /\ endpoint' = Finish(endpoint)
            /\ req' = NoRequest
    /\ UNCHANGED <<df, chatVars, api_key, api_configured, session_state, session_data, analyzers, tmp_files, n_uploads>>

\* The request fails: ask raises, the handler answers 500.
ChatLlmRaise ==
    /\ req.pc = "chat_llm"
    /\ ret' = [op |-> "chat", status |-> 500, error |-> "AI error",
               requests |-> endpoint.op_requests, charts |-> <<>>]
    /\ endpoint' = Finish(endpoint)
    /\ req' = NoRequest
    /\ UNCHANGED <<df, chatVars, api_key, api_configured, session_state, session_data, analyzers, tmp_files, n_uploads>>

\* A slip: the Chat Session survives the reset.
Clear_KeepsChat ==
    /\ req.pc = "idle"
    /\ session_data' = [session_data EXCEPT !.analyzer = NoneVal,
                                            !.filename = NoneVal]
    /\ ret' = [op |-> "clear", status |-> 200, requests |-> 0, charts |-> <<>>]
    /\ endpoint' = QuietEndpoint
    /\ UNCHANGED <<df, chatVars, api_key, api_configured, session_state, analyzers, tmp_files, n_uploads, req>>

\* POST /api/clear
Clear ==
    /\ req.pc = "idle"
    /\ session_data' = [session_data EXCEPT !.analyzer = NoneVal,
                                            !.chat_service = NoneVal,
                                            !.filename = NoneVal]
    /\ ret' = [op |-> "clear", status |-> 200, requests |-> 0, charts |-> <<>>]
    /\ endpoint' = QuietEndpoint
    /\ UNCHANGED <<df, chatVars, api_key, api_configured, session_state, analyzers, tmp_files, n_uploads, req>>

\* GET /api/status
Status ==
    /\ req.pc = "idle"
    /\ ret' = [op |-> "status", status |-> 200,
               api_configured |-> api_configured,
               dataset_loaded |-> session_data.analyzer # NoneVal,
               filename |-> session_data.filename,
               requests |-> 0, charts |-> <<>>]
    /\ endpoint' = QuietEndpoint
    /\ UNCHANGED <<df, chatVars, api_key, api_configured, session_state, session_data, analyzers, tmp_files,
                   n_uploads, req>>

NextServer ==
    \/ \E f \in Uploads : UploadBegin(f)
    \/ \E o \in ServerLlmOutcomes, failed \in SUBSET (1..MaxSuggestions) : UploadLlmDone(o, failed)
    \/ \E m \in Questions \cup {NoneVal} : ChatBegin(m)
    \/ \E a \in Answers : ChatLlmReturn(a)
    \/ ChatLlmRaise
    \/ Clear
    \/ Status

SpecServer == InitServer /\ [][NextServer]_vars

\* ------------------------------------------------- the command-line front end
\* The lines typed at the prompt.
Lines == {"", "  ", "quit", " EXIT ", "Q", "clear", " Clear", "hi", "quit now"}

\* str.strip() on the lines that occur.
Strip(line) ==
    CASE line = "  "     -> ""
      [] line = " EXIT " -> "EXIT"
      [] line = " Clear" -> "Clear"
      [] OTHER -> line

\* Something main() read, printed or sent, with its text.
Event(ev, text) == [ev |-> ev, text |-> Text(text)]

\* The paths given on the command line.
CliPaths ==
    { [exists |-> TRUE, suffix |-> ".csv", content |-> Parsed(DsScores)],
      [exists |-> TRUE, suffix |-> ".JSON", content |-> Unparsable],
      [exists |-> FALSE, suffix |-> ".csv", content |-> Unparsable] }

CliStart == [pc |-> "start", out |-> <<>>, reads |-> 0]

InitCli ==
    /\ df = DsEmpty
    /\ ret = NoCall
    /\ FreshChat
    /\ FreshServer
    /\ cli = CliStart
    /\ session_state = NoSessionState
    /\ api_key \in ApiKeys
    /\ api_configured = validate_config(api_key)

\* main() up to the prompt: the dataset is loaded (exit on DatasetError),
\* the summary is printed, the Chat Session is made (ValueError when the API
\* key is not configured, reported after the summary).
CliMain(path) ==
    /\ cli.pc = "start"
    /\ LET loaded == load_dataset(path)
           s == get_summary(NoCache, loaded.df)
       IN  IF ~loaded.ok
           THEN /\ cli' = [cli EXCEPT !.pc = "done",
                              !.out = <<Event("loading", ""), Event("error", loaded.message)>>]
                /\ UNCHANGED <<df, summary_cache, n_computed, first_summary>>
           ELSE /\ df' = loaded.df
                /\ summary_cache' = s.cache
                /\ n_computed' = n_computed + 1
                /\ first_summary' = s.cache
                /\ cli' = [cli EXCEPT
                      !.pc = IF api_configured THEN "prompt" ELSE "done",
                      !.out = <<Event("loading", ""), Event("loaded", ""),
                                Event("summary", "")>>
                                \o (IF api_configured THEN <<Event("chat mode", "")>>
                                    ELSE <<Event("config error", "")>>)]
    /\ UNCHANGED <<conversation_history, call, log, ret, serverVars>>

\* One turn of the loop of interactive_chat, up to the request of ask.
CliReadLine(line) ==
    /\ cli.pc = "prompt"
    /\ cli.reads < MaxLines
    /\ LET question == Strip(line)
           read == Append(cli.out, Event("read", line))
       IN  IF question = ""
           THEN /\ cli' = [cli EXCEPT !.out = read, !.reads = @ + 1]
                /\ UNCHANGED <<conversation_history, log>>
           ELSE IF Lower(question) \in {"quit", "exit", "q"}
           THEN /\ cli' = [cli EXCEPT !.pc = "done", !.reads = @ + 1,
                                      !.out = Append(read, Event("goodbye", ""))]
                /\ UNCHANGED <<conversation_history, log>>
           ELSE IF Lower(question) = "clear"
           THEN /\ conversation_history' = <<>>
                /\ log' = <<>>
                /\ cli' = [cli EXCEPT !.reads = @ + 1,
                                      !.out = Append(read, Event("cleared", ""))]
           ELSE /\ cli' = [pc |-> "asking", reads |-> cli.reads + 1,
                           out |-> Append(read, Event("sent", question)),
                           question |-> Text(question),
                           before |-> conversation_history,
                           messages |->
                              chat_messages(Text(question),
                                            SystemPrompt(get_summary(summary_cache, df).cache),
                                            ask_history(conversation_history, TRUE))]
                /\ UNCHANGED <<conversation_history, log>>
    /\ UNCHANGED <<df, summary_cache, call, n_computed, first_summary, ret, serverVars>>

\* input() raises KeyboardInterrupt or EOFError.
CliEof ==
    /\ cli.pc = "prompt"
    /\ cli' = [cli EXCEPT !.pc = "done", !.out = Append(@, Event("goodbye", ""))]
    /\ UNCHANGED <<df, summary_cache, conversation_history, call, log, n_computed,
                   first_summary, ret, serverVars>>

\* The endpoint answers: ask appends both turns, the answer is printed.
CliAskReturn(content) ==
    /\ cli.pc = "asking"
    /\ conversation_history' =
          ask_append(conversation_history, cli.question, chat_result(content))
    /\ log' = Append(log, [q |-> cli.question, a |-> content])
    /\ cli' = [pc |-> "prompt", reads |-> cli.reads,
               out |-> Append(cli.out, Event("answer", content.text))]
    /\ UNCHANGED <<df, summary_cache, call, n_computed, first_summary, ret, serverVars>>

\* A slip: an error of ask ends the loop.
CliAskRaise_Exits ==
    /\ cli.pc = "asking"
    /\ cli' = [pc |-> "done", reads |-> cli.reads,
               out |-> Append(cli.out, Event("error", "Groq API error"))]
    /\ UNCHANGED <<df, summary_cache, conversation_history, call, log, n_computed,
                   first_summary, ret, serverVars>>

\* ask raises: the error is printed and the loop goes on.
CliAskRaise ==
    /\ cli.pc = "asking"
    /\ cli' = [pc |-> "prompt", reads |-> cli.reads,
               out |-> Append(cli.out, Event("error", "Groq API error"))]
    /\ UNCHANGED <<df, summary_cache, conversation_history, call, log, n_computed,
                   first_summary, ret, serverVars>>

\* Ctrl-C while ask is waiting: KeyboardInterrupt is no Exception and ends main().
CliAskInterrupt ==
    /\ cli.pc = "asking"
    /\ cli' = [pc |-> "done", reads |-> cli.reads,
               out |-> Append(cli.out, Event("interrupted", ""))]
    /\ UNCHANGED <<df, summary_cache, conversation_history, call, log, n_computed,
                   first_summary, ret, serverVars>>

NextCli ==
    \/ \E path \in CliPaths : CliMain(path)
    \/ \E line \in Lines : CliReadLine(line)
    \/ CliEof
    \/ \E a \in Answers : CliAskReturn(a)
    \/ CliAskRaise
    \/ CliAskInterrupt

SpecCli == InitCli /\ [][NextCli]_vars

\* ---------------------------------------------------- the Streamlit front end
\* load_uploaded_file: the extension is the lower-cased text after the last
\* dot, the file is read once, any exception is shown and None returned.
load_uploaded_file(f) ==
    LET file_ext == Lower(f.suffix)
    IN  IF file_ext \in {".csv", ".xlsx", ".xls", ".json"} /\ f.content[1].kind = "frame"
        THEN f.content[1].df
        ELSE NoneVal

\* The files that can be handed to the uploader.
AppFiles == { f \in Uploads : f.present /\ f.filename # "" }

\* init_session_state on the first run of the script.
InitApp ==
    /\ df = DsEmpty
    /\ ret = NoCall
    /\ FreshChat
    /\ FreshServer
    /\ cli = CliOff
    /\ api_key \in ApiKeys
    /\ api_configured = validate_config(api_key)
    /\ session_state = [NoSessionState EXCEPT !.api_valid = validate_config(api_key)]

\* The variables the Streamlit script does not touch.
AppUntouched ==
    UNCHANGED <<df, chatVars, api_key, api_configured, session_data, analyzers,
                tmp_files, n_uploads, req, endpoint>>

\* "Load Dataset" is pressed with file f chosen; the rerun draws the summary,
\* which fills the analyzer's cache.
AppLoad(f) ==
    /\ LET d == load_uploaded_file(f)
       IN  IF d = NoneVal
           THEN /\ UNCHANGED session_state
                /\ ret' = [op |-> "app_load", loaded |-> FALSE]
           ELSE /\ session_state' =
                      [session_state EXCEPT
                          !.df = d,
                          !.analyzer = [df |-> d, cache |-> get_summary(NoCache, d).cache],
                          !.chat_service =
                              IF session_state.api_valid
                              THEN [conversation_history |-> <<>>]
                              ELSE @,
                          !.messages = <<>>]
                /\ ret' = [op |-> "app_load", loaded |-> TRUE]
    /\ AppUntouched

\* A question is entered in the chat input: it is added to the messages
\* shown, ask is called (answer = None: it raises and the error is shown),
\* the answer is added, the script reruns.
AppAsk(question, answer) ==
    /\ session_state.df # NoneVal
    /\ session_state.api_valid
    /\ session_state.chat_service # NoneVal
    /\ Len(session_state.messages) < 2 * MaxAsks
    /\ LET history == session_state.chat_service.conversation_history
           shown == Append(session_state.messages, Message("user", question))
           sent == chat_messages(question, SystemPrompt(session_state.analyzer.cache),
                                 ask_history(history, TRUE))
       IN  IF answer = NoneVal
           THEN /\ session_state' = [session_state EXCEPT !.messages = shown]
                /\ ret' = [op |-> "app_ask", raised |-> TRUE, sent |-> sent]
           ELSE /\ session_state' =
                      [session_state EXCEPT
                          !.messages = Append(shown, Message("assistant", chat_result(answer))),
                          !.chat_service.conversation_history =
                              ask_append(history, question, chat_result(answer))]
                /\ ret' = [op |-> "app_ask", raised |-> FALSE, sent |-> sent]
    /\ AppUntouched

\* "Clear Chat", shown while there are messages.
AppClearChat ==
    /\ session_state.df # NoneVal
    /\ session_state.api_valid
    /\ session_state.chat_service # NoneVal
    /\ session_state.messages # <<>>
    /\ session_state' = [session_state EXCEPT !.messages = <<>>,
                                              !.chat_service.conversation_history = <<>>]
    /\ ret' = [op |-> "app_clear_chat"]
    /\ AppUntouched

\* "Clear Dataset", shown while a dataset is loaded.
AppClearDataset ==
    /\ session_state.df # NoneVal
    /\ session_state' = [session_state EXCEPT !.df = NoneVal, !.analyzer = NoneVal,
                                              !.chat_service = NoneVal, !.messages = <<>>]
    /\ ret' = [op |-> "app_clear_dataset"]
    /\ AppUntouched

NextApp ==
    \/ \E f \in AppFiles : AppLoad(f)
    \/ \E q \in Questions, a \in Answers \cup {NoneVal} : AppAsk(q, a)
    \/ AppClearChat
    \/ AppClearDataset

SpecApp == InitApp /\ [][NextApp]_vars

\* ------------------------------------------------------ either front end
\* The program is started as the HTTP server or from the command line.
InitFrontEnds == InitServer \/ InitCli

NextFrontEnds ==
    \/ cli.pc = "off" /\ NextServer
    \/ NextCli

SpecFrontEnds == InitFrontEnds /\ [][NextFrontEnds]_vars

\* ------------------------------------------------------------------ claims
\* The turns of a list of (question, answer) pairs, in order.
RECURSIVE TurnsOf(_)
TurnsOf(pairs) ==
    IF pairs = <<>> THEN <<>>
    ELSE <<Message("user", Head(pairs).q), Message("assistant", Head(pairs).a)>>
           \o TurnsOf(Tail(pairs))

\* C1: with calls that do not overlap, the Conversation is exactly the
\* (user, q_i), (assistant, a_i) turns of the asks answered since the last
\* clearHistory, in call order, a_i being the text the client returned for
\* q_i; an ask returns a_i and extends the Conversation by exactly two turns,
\* with or without history.
C1_ConversationIsLog ==
    /\ conversation_history = TurnsOf(log)
    /\ (ret.op = "ask" /\ ~ret.raised) =>
          /\ ret.value = log[Len(log)].a
          /\ ret.question = log[Len(log)].q
          /\ Len(conversation_history) = Len(ret.before) + 2
          /\ SubSeq(conversation_history, 1, Len(ret.before)) = ret.before

C1_Witness ==
    /\ ret.op = "ask"
    /\ ~ret.raised
    /\ ~ret.include_history
    /\ Len(log) = 2
    /\ log[1].q = log[2].q
    /\ log[1].a # log[2].a
    /\ Len(conversation_history) = 4

\* C2: clearHistory() in any state leaves the Conversation empty and the
\* analyzer's cached Summary and its Dataset unchanged; ask followed by
\* clearHistory yields an empty Conversation and the Summary of before the ask.
C2_ClearKeepsSummary ==
    (ret.op = "clear_history" /\ Idle) =>
        /\ conversation_history = <<>>
        /\ summary_cache = ret.cache_before
        /\ df = ret.df_before
        /\ ret.after_ask => SummaryNow = ret.summary_before_ask

C2_Witness ==
    /\ ret.op = "clear_history"
    /\ Idle
    /\ ret.after_ask
    /\ Len(ret.history_before) = 2
    /\ summary_cache # NoCache
    /\ conversation_history = <<>>

\* How many elements of s equal x.
Occurrences(s, x) == Cardinality({ i \in 1..Len(s) : s[i] = x })

\* C3: the message list submitted for ask(question, include_history) is the
\* system prompt, then the Conversation as it was before the ask in its
\* order (nothing when include_history is false), then the new user question
\* last, added exactly once; ask returns the endpoint's text unchanged.
C3_MessageList ==
    /\ \A t \in Callers :
          call[t].pc = "waiting" =>
              LET m == call[t].messages
                  h == IF call[t].include_history THEN call[t].before ELSE <<>>
                  q == Message("user", call[t].question)
              IN  /\ Len(m) = Len(h) + 2
                  /\ m[1] = Message("system", SystemPrompt(summary_cache))
                  /\ SubSeq(m, 2, Len(m) - 1) = h
                  /\ m[Len(m)] = q
                  /\ Occurrences(m, q) = Occurrences(h, q) + 1
    /\ (ret.op = "ask" /\ ~ret.raised) => ret.value = ret.response

C3_Witness ==
    \E t \in Callers :
        /\ call[t].pc = "waiting"
        /\ call[t].include_history
        /\ Len(call[t].before) = 2
        /\ Len(call[t].messages) = 4
        /\ call[t].messages[2].content = call[t].question

\* C4 as stated: every upload request, ask and generate-charts call issues
\* exactly one outbound request to the LLM endpoint, which has completed or
\* failed when the operation returns, and is never retried.
C4_ExactlyOneRequest ==
    /\ req.pc = "idle" => endpoint.outstanding = 0
    /\ ret.op = "upload" => ret.requests = 1
    /\ (ret.op = "chat" /\ ret.status \in {200, 500}) => ret.requests = 1

\* C4 amended: an ask and a generate-charts call issue exactly one outbound
\* request; an upload request issues exactly one when its file parses and the
\* API key is configured, and none when it is rejected or no key is
\* configured; the request has completed or failed when the operation
\* returns, and a failed request is never retried.
C4_AtMostOneRequest ==
    /\ endpoint.op_requests <= 1
    /\ endpoint.outstanding <= endpoint.op_requests
    /\ req.pc = "idle" => endpoint.outstanding = 0
    /\ req.pc \in {"upload_llm", "chat_llm"} =>
          (endpoint.op_requests = 1 /\ endpoint.outstanding = 1)
    /\ ret.op = "upload" =>
          ret.requests = (IF ret.status \in {200, 500} /\ api_configured THEN 1 ELSE 0)
    /\ ret.op = "chat" =>
          ret.requests = (IF ret.status \in {200, 500} THEN 1 ELSE 0)

C4_Witness ==
    /\ ret.op = "chat"
    /\ ret.status = 500
    /\ ret.requests = 1
    /\ req.pc = "idle"
    /\ endpoint.outstanding = 0
    /\ session_data.chat_service # NoneVal
    /\ Len(session_data.chat_service.conversation_history) = 2

\* C5: on one Summarizer the summary is computed at most once; the first
\* summary() call computes and caches it and every later call returns that
\* cached result, even if the Dataset was mutated in between.
C5_ComputedOnce ==
    /\ n_computed <= 1
    /\ summary_cache # NoCache => (n_computed = 1 /\ summary_cache = first_summary)
    /\ ret.op = "get_summary" => ret.value = first_summary

C5_Witness ==
    /\ ret.op = "get_summary"
    /\ n_computed = 1
    /\ ret.value = first_summary
    /\ first_summary # ComputeSummary(df)

AllNull(c) == \A i \in 1..Len(c.vals) : IsNull(c.vals[i])

\* C6 as stated: for any Dataset with R rows and an all-null column,
\* emptyStats() reports total_empty = R and percentage = 100.0 for it.
C6_AsStated ==
    ret.op = "get_empty_data_stats" =>
        \A i \in 1..Len(df.cols) :
            AllNull(df.cols[i]) =>
                /\ ret.value[df.cols[i].name].total_empty = df.nrows
                /\ ret.value[df.cols[i].name].percentage = 10000

\* C6 amended: for any Dataset with R >= 1 rows and an all-null column,
\* emptyStats() reports total_empty = R and percentage = 100.0 for it; with
\* R = 0 it reports total_empty = 0 and percentage = 0.
C6_AllNullColumn ==
    ret.op = "get_empty_data_stats" =>
        \A i \in 1..Len(df.cols) :
            AllNull(df.cols[i]) =>
                /\ ret.value[df.cols[i].name].total_empty = df.nrows
                /\ ret.value[df.cols[i].name].percentage =
                      (IF df.nrows >= 1 THEN 10000 ELSE 0)

C6_Witness ==
    /\ ret.op = "get_empty_data_stats"
    /\ df.nrows = 2
    /\ \E i \in 1..Len(df.cols) :
          /\ AllNull(df.cols[i])
          /\ df.cols[i].dtype = "object"
          /\ ret.value[df.cols[i].name].percentage = 10000
    /\ \E i \in 1..Len(df.cols) : ~AllNull(df.cols[i])

\* C7: basicStats() returns an empty mapping iff the Dataset has zero numeric
\* columns, for every Dataset including those with zero rows.
C7_EmptyIffNoNumeric ==
    ret.op = "get_basic_stats" =>
        ((DOMAIN ret.value = {}) <=> (NumericCols(df) = <<>>))

\* The columns the fallback rules speak of, by dtype.
NumericNames(d) == MapNames(SelectSeq(d.cols, IsNumberColumn))
CategoricalNames(d) == MapNames(SelectSeq(d.cols, IsCategoricalColumn))

\* What a chart spec plots: its type and the columns it references.
SpecKey(c) ==
    IF c.type = "histogram" THEN <<c.type, c.column>> ELSE <<c.type, c.x, c.y>>

RECURSIVE SpecKeys(_)
SpecKeys(cs) == IF cs = <<>> THEN <<>> ELSE <<SpecKey(Head(cs))>> \o SpecKeys(Tail(cs))

\* C8: the fallback heuristic returns, in this order and nothing else, a
\* histogram of the first numeric column iff one exists, a bar chart with
\* x = first categorical and y = first numeric column iff both exist, and a
\* scatter of the first two numeric columns iff at least two exist; one
\* numeric and one text column give exactly histogram then bar, and no
\* numeric column gives the empty list.
C8_FallbackHeuristic ==
    ret.op = "_fallback_suggestions" =>
        LET num == NumericNames(df)
            cat == CategoricalNames(df)
        IN  /\ SpecKeys(ret.value) =
                  (IF Len(num) >= 1 THEN <<(<<"histogram", num[1]>>)>> ELSE <<>>)
                  \o (IF Len(cat) >= 1 /\ Len(num) >= 1
                      THEN <<(<<"bar", cat[1], num[1]>>)>> ELSE <<>>)
                  \o (IF Len(num) >= 2 THEN <<(<<"scatter", num[1], num[2]>>)>> ELSE <<>>)
            /\ (Len(num) = 1 /\ Len(cat) = 1 /\ Len(df.cols) = 2) =>
                  /\ Len(ret.value) = 2
                  /\ ret.value[1].type = "histogram"
                  /\ ret.value[2].type = "bar"
            /\ Len(num) = 0 => ret.value = <<>>

C8_Witness ==
    /\ ret.op = "_fallback_suggestions"
    /\ Len(NumericNames(df)) = 2
    /\ Len(CategoricalNames(df)) = 1
    /\ df.cols[1].dtype = "object"
    /\ Len(ret.value) = 3
    /\ ret.value[3].type = "scatter"

\* The failures of the LLM-backed path: the call raised, the text holds no
\* "{" followed later by a "}", or the text between them is not JSON.
LlmPathFailed(llm) ==
    \/ llm.kind = "error"
    \/ /\ llm.kind = "text"
       /\ \/ ~\E i, j \in 1..Len(llm.toks) : i < j /\ llm.toks[i] = "{" /\ llm.toks[j] = "}"
          \/ ~json_loads(re_search_braces(llm.toks)).ok

\* C9: on any failure of the LLM-backed path (transport error, no
\* brace-delimited text, malformed JSON) suggestions() returns exactly the
\* list of the fallback heuristic.
C9_FailureFallsBack ==
    (ret.op = "get_ai_suggestions" /\ LlmPathFailed(ret.llm)) =>
        /\ ret.out.fallback
        /\ ret.out.value = fallback_suggestions(df)

C9_Witness ==
    /\ ret.op = "get_ai_suggestions"
    /\ ret.llm.kind = "text"
    /\ ret.llm.toks = <<"{", "w", "}">>
    /\ Len(ret.out.value) = 3

\* The first brace-delimited JSON object of a text: the leftmost, then
\* shortest, stretch from a "{" to a "}" that is a JSON object.
IsObjectAt(s, i, j) ==
    i < j /\ s[i] = "{" /\ s[j] = "}" /\ json_loads(SubSeq(s, i, j)).ok

HasObject(s) == \E i, j \in 1..Len(s) : IsObjectAt(s, i, j)

FirstObject(s) ==
    LET i == CHOOSE a \in 1..Len(s) :
                /\ \E b \in 1..Len(s) : IsObjectAt(s, a, b)
                /\ \A a2 \in 1..(a - 1) : ~\E b \in 1..Len(s) : IsObjectAt(s, a2, b)
        j == CHOOSE b \in 1..Len(s) :
                /\ IsObjectAt(s, i, b)
                /\ \A b2 \in 1..(b - 1) : ~IsObjectAt(s, i, b2)
    IN  json_loads(SubSeq(s, i, j))

\* C10: when the response contains a brace-delimited JSON object, possibly
\* wrapped in prose, suggestions() returns the first min(3, n) entries of the
\* first such object's charts list, in order, without the fallback heuristic;
\* for every response the returned list has at most 3 entries.
C10_FirstObjectExtracted ==
    ret.op = "get_ai_suggestions" =>
        /\ Len(ret.out.value) <= 3
        /\ (ret.llm.kind = "text" /\ HasObject(ret.llm.toks)) =>
              /\ ~ret.out.fallback
              /\ ret.out.value = Take(FirstObject(ret.llm.toks).charts, 3)

\* What the reads of a supported file end in: the first read that is not a
\* decode error retried with the next encoding.
LastRead(path) ==
    LET c == path.content
        csv == Lower(path.suffix) = ".csv"
        k == IF ~csv THEN 1
             ELSE IF \E i \in 1..Len(Encodings) : c[i] # Raises("UnicodeDecodeError")
             THEN CHOOSE i \in 1..Len(Encodings) :
                     /\ c[i] # Raises("UnicodeDecodeError")
                     /\ \A j \in 1..(i - 1) : c[j] = Raises("UnicodeDecodeError")
             ELSE Len(Encodings) + 1
    IN  c[k]

\* C11: load_dataset returns a Dataset or raises DatasetError and nothing
\* else: DatasetError for a path that does not exist (whatever its
\* extension), for a lower-cased extension outside .csv/.xlsx/.xls/.json, and
\* for a parse that ends in an exception, which is kept as the cause.
C11_LoadOutcomes ==
    ret.op = "load_dataset" =>
        LET p == ret.path
            v == ret.value
            supported == Lower(p.suffix) \in {".csv", ".xlsx", ".xls", ".json"}
        IN  /\ \/ v.ok /\ v.df # NoneVal
               \/ ~v.ok /\ v.error = "DatasetError"
            /\ ~p.exists => (~v.ok /\ v.message = "File not found")
            /\ (p.exists /\ ~supported) => (~v.ok /\ v.message = "Unsupported file type")
            /\ (p.exists /\ supported /\ LastRead(p).kind = "raise") =>
                  (~v.ok /\ v.message = "Failed to parse file" /\ v.cause = LastRead(p))
            /\ (p.exists /\ supported /\ LastRead(p).kind = "frame") =>
                  (v.ok /\ v.df = LastRead(p).df)

C11_Witness ==
    /\ ret.op = "load_dataset"
    /\ ret.path.exists
    /\ ret.path.suffix = ".CSV"
    /\ ret.path.content[1] = Raises("UnicodeDecodeError")
    /\ ret.path.content[2] = Raises("TypeError")
    /\ ~ret.value.ok
    /\ ret.value.cause = Raises("TypeError")

\* The charts of the suggestions that are dicts and whose drawing did not
\* raise, in order.
RECURSIVE ChartsOfRemaining(_, _, _, _)
ChartsOfRemaining(d, suggestions, failed, i) ==
    IF i > Len(suggestions) THEN <<>>
    ELSE (IF i \in failed THEN <<>> ELSE <<ChartRecord(d, suggestions[i])>>)
           \o ChartsOfRemaining(d, suggestions, failed, i + 1)

\* C12: for every list suggestions() returns, whatever its entries,
\* generate_charts returns without raising; a spec whose rendering fails is
\* omitted and the charts of the others are returned in their order.
C12_NeverRaises ==
    ret.op = "generate_charts" =>
        /\ ~ret.out.raised
        /\ ret.out.value = ChartsOfRemaining(df, ret.suggestions, ret.failed, 1)

DrawnTypes == {"bar", "line", "histogram", "scatter", "pie"}

\* The keys of a spec that name columns, by chart type.
ReferencedKeys(chart_type) ==
    CASE chart_type \in {"bar", "line", "scatter"} -> {"x", "y"}
      [] chart_type = "histogram" -> {"column"}
      [] chart_type = "pie" -> {"column", "values"}

\* A key of the spec is missing, or names no column of the Dataset.
BadReference(d, config, key) ==
    key \notin DOMAIN config \/ config[key] \notin ColumnSet(d)

CategoryKey(config) == IF "column" \in DOMAIN config THEN "column" ELSE "x"

\* The column check of the spec's drawing routine fails.
ColumnCheckFails(d, config) ==
    IF config.type \in {"bar", "line", "scatter"}
    THEN BadReference(d, config, "x") \/ BadReference(d, config, "y")
    ELSE BadReference(d, config, CategoryKey(config))

UploadStored == n_uploads' = n_uploads + 1 /\ analyzers' # analyzers

\* C14: after POST /api/clear the session record holds no Dataset, no
\* analyzer, no Chat Session and no filename, and stays so until the next
\* successful upload; GET /api/status then reports dataset_loaded = false and
\* filename = null.
C14_ClearedUntilUpload ==
    [][/\ (ret'.op = "clear" /\ req'.pc = "idle") => session_data' = EmptySession
       /\ (session_data = EmptySession /\ ~UploadStored) => session_data' = EmptySession
       /\ (ret'.op = "status" /\ session_data' = EmptySession) =>
             (~ret'.dataset_loaded /\ ret'.filename = NoneVal)]_vars

\* An upload the handler accepts: a named file part of a supported type
\* whose parse ends in a DataFrame with leading rows of numbers, strings,
\* booleans and nulls, which a JSON response can carry.
ValidUpload(f) ==
    /\ f.present
    /\ f.filename # ""
    /\ Lower(f.suffix) \in {".csv", ".xlsx", ".xls", ".json"}
    /\ LastRead(f).kind = "frame"
    /\ \A i \in 1..Len(LastRead(f).df.cols) :
          \A r \in 1..LastRead(f).df.nrows :
              LastRead(f).df.cols[i].vals[r].kind \in {"null", "num", "str", "bool"}

KeyNotConfigured == api_key \in {NoneVal, ApiKey(""), ApiKey("your_api_key_here")}

Printed(ev) == { i \in 1..Len(cli.out) : cli.out[i].ev = ev }

C15_CliWitness ==
    /\ api_key = NoneVal
    /\ cli.pc = "done"
    /\ Printed("config error") # {}
    /\ Printed("summary") # {}

\* The upload reached the temporary file: the three checks on the file part
\* passed.
ReachedParse(f) ==
    /\ f.present
    /\ f.filename # ""
    /\ Lower(f.suffix) \in {".csv", ".xlsx", ".xls", ".json"}

\* The temporary file of an upload is gone as soon as the parse has
\* returned (before the chart request and in the response), and is left on
\* disk exactly when load_dataset raised.
TempFileDeletedIffParsed ==
    /\ tmp_files \subseteq 1..n_uploads
    /\ req.pc = "upload_llm" =>
          (LastRead(req.input).kind = "frame" /\ n_uploads \notin tmp_files)
    /\ (req.pc = "idle" /\ ret.op = "upload" /\ ReachedParse(ret.input)) =>
          (n_uploads \in tmp_files <=> LastRead(ret.input).kind = "raise")

\* C16: the temporary file is deleted right after the parse exactly when the
\* parse succeeded, and a temporary file that was left because load_dataset
\* raised is still there after every later request.
C16_TempFileDeletedIffParsed ==
    /\ []TempFileDeletedIffParsed
    /\ [][tmp_files \subseteq tmp_files']_vars

C16_Witness ==
    /\ ret.op = "upload"
    /\ ret.status = 400
    /\ ReachedParse(ret.input)
    /\ tmp_files = {1}
    /\ n_uploads = 1

C16_WitnessDeleted ==
    /\ ret.op = "upload"
    /\ ret.status = 200
    /\ tmp_files = {1}
    /\ n_uploads = 2

\* The session record is whole: its Chat Session asks its analyzer, its
\* analyzer wraps its DataFrame and has a file name, and a chat request in
\* flight carries the Summary of that DataFrame.
SessionWhole ==
    /\ session_data.chat_service # NoneVal =>
          session_data.chat_service.analyzer = session_data.analyzer
    /\ session_data.analyzer # NoneVal =>
          /\ session_data.analyzer.id \in 1..Len(analyzers)
          /\ analyzers[session_data.analyzer.id].df = session_data.df
          /\ analyzers[session_data.analyzer.id].cache \in
                {NoCache, ComputeSummary(session_data.df)}
          /\ session_data.filename # NoneVal
    /\ req.pc = "chat_llm" =>
          /\ session_data.chat_service # NoneVal
          /\ req.messages[1].content = SystemPrompt(ComputeSummary(session_data.df))

\* The file whose upload is being answered or was answered last.
UploadedFile == IF req.pc = "upload_llm" THEN req.input ELSE ret.input

\* A new analyzer comes with the name and the DataFrame of the file uploaded
\* in the same step.
AnalyzerWithItsFile ==
    (session_data.analyzer' # session_data.analyzer /\ session_data.analyzer' # NoneVal) =>
        /\ session_data.analyzer' = Ref(Len(analyzers'))
        /\ Len(analyzers') = Len(analyzers) + 1
        /\ session_data.filename' = Name(UploadedFile'.filename)
        /\ session_data.df' = LastRead(UploadedFile').df
        /\ session_data.chat_service' # NoneVal =>
              session_data.chat_service'.conversation_history = <<>>

\* C17: after any sequence of upload, chat and clear requests, failing ones
\* included, a Chat Session that exists asks the session's current analyzer
\* and an analyzer that exists wraps the session's current Dataset and comes
\* with its file name, so the Summary sent to the LLM is the one of the
\* Dataset currently loaded and the Conversation starts empty with it.
C17_SessionConsistent ==
    /\ []SessionWhole
    /\ [][AnalyzerWithItsFile]_vars

C17_Witness ==
    /\ Len(analyzers) = 2
    /\ session_data.chat_service # NoneVal
    /\ session_data.chat_service.analyzer = Ref(2)
    /\ session_data.df = DsOne
    /\ ret.op = "chat"
    /\ ret.status = 500

\* generate_chart returned a chart record.
ChartReturned ==
    /\ ret.op = "generate_chart"
    /\ ~ret.out.raised
    /\ ret.out.value # NoneVal

\* The number of categories of the column a bar or pie chart groups by.
CategoryCount ==
    Cardinality(Groups(df, IF "column" \in DOMAIN ret.config THEN ret.config.column
                           ELSE ret.config.x))

AtMost(n, cap) == IF n <= cap THEN n ELSE cap

\* C18 as stated: for any Dataset and any spec the pie routine plots at most
\* 8 categories and the bar routine plots at most 8 groups.
C18_PieAndBarAtMost8 ==
    (ChartReturned /\ ret.out.value.image.call \in {"pie", "bar"}) =>
        ret.out.value.image.items <= 8

\* C18 amended: the pie routine plots the first 8 categories at most, the
\* bar routine the first 15 groups at most.
C18_Pie8Bar15 ==
    ChartReturned =>
        /\ ret.out.value.image.call = "pie" =>
              ret.out.value.image.items = AtMost(CategoryCount, 8)
        /\ ret.out.value.image.call = "bar" =>
              ret.out.value.image.items = AtMost(CategoryCount, 15)

C18_Witness ==
    /\ ChartReturned
    /\ ret.out.value.image = Drawn("bar", 15)
    /\ CategoryCount = 16

C18_WitnessPie ==
    /\ ChartReturned
    /\ ret.out.value.image = Drawn("pie", 8)
    /\ CategoryCount = 16

\* What a typed line is, once trimmed: nothing, a word that ends the loop, the
\* word that resets the Conversation, or a question.
LineKind(line) ==
    CASE line \in {"", "  "} -> "empty"
      [] line \in {"quit", " EXIT ", "Q"} -> "quit"
      [] line \in {"clear", " Clear"} -> "clear"
      [] OTHER -> "question"

\* The line without the blanks around it.
Trimmed(line) ==
    CASE line = " EXIT " -> "EXIT"
      [] line = " Clear" -> "Clear"
      [] line = "  " -> ""
      [] OTHER -> line

\* What follows the i-th event of main(), a line read at the prompt.
AfterRead(i) ==
    LET out == cli.out
        line == out[i].text.text
        last == i = Len(out)
        then == out[i + 1]
    IN  CASE LineKind(line) = "empty" ->
               /\ last => cli.pc = "prompt"
               /\ ~last => then.ev \in {"read", "goodbye"}
          [] LineKind(line) = "quit" ->
               /\ ~last
               /\ then.ev = "goodbye"
               /\ Len(out) = i + 1
               /\ cli.pc = "done"
          [] LineKind(line) = "clear" ->
               /\ ~last
               /\ then.ev = "cleared"
               /\ Len(out) = i + 1 => (conversation_history = <<>> /\ cli.pc = "prompt")
               /\ Len(out) > i + 1 => out[i + 2].ev \in {"read", "goodbye"}
          [] LineKind(line) = "question" ->
               /\ ~last
               /\ then = Event("sent", Trimmed(line))
               /\ Len(out) = i + 1 =>
                     (cli.pc = "asking" /\ cli.question = Text(Trimmed(line)))
               /\ Len(out) > i + 1 => out[i + 2].ev \in {"answer", "error", "interrupted"}
               /\ (Len(out) = i + 2 /\ out[i + 2].ev = "error") => cli.pc = "prompt"
               /\ (Len(out) > i + 2 /\ out[i + 2].ev \in {"answer", "error"}) =>
                     out[i + 3].ev \in {"read", "goodbye"}

\* C19: in the loop of the CLI an empty line (after trimming) is ignored;
\* quit, exit or q in any case ends the loop and nothing is asked afterwards;
\* clear in any case empties the Conversation and the loop goes on; none of
\* these is sent to the LLM; every other line is asked exactly once, and an
\* error of that ask is printed and the loop goes on.
C19_LoopCommands ==
    /\ \A i \in Printed("read") : AfterRead(i)
    /\ \A j \in Printed("sent") :
          /\ j - 1 \in Printed("read")
          /\ LineKind(cli.out[j - 1].text.text) = "question"
    /\ \A j \in Printed("goodbye") : j = Len(cli.out) /\ cli.pc = "done"
    /\ Len(log) <= Cardinality(Printed("sent"))

C19_Witness ==
    /\ cli.pc = "done"
    /\ Printed("error") # {}
    /\ Printed("cleared") # {}
    /\ Len(cli.out) > 2
    /\ cli.out[Len(cli.out) - 1] = Event("read", " EXIT ")
    /\ Cardinality(Printed("sent")) = 1

\* The last call that ended is an ask that raised.
AskFailed == ret.op = "ask" /\ ret.raised

\* After a failed ask nothing is returned, the Conversation is what it was
\* before that ask, and an ask made next is given that Conversation and sends
\* the messages it would have sent without the failed ask.
FailedAskLeftNoTrace ==
    AskFailed =>
        /\ ret.value = NoneVal
        /\ conversation_history = ret.before
        /\ \A t \in Callers :
              call[t].pc = "waiting" =>
                  /\ call[t].before = ret.before
                  /\ call[t].messages =
                        <<Message("system", SystemPrompt(summary_cache))>>
                          \o (IF call[t].include_history THEN ret.before ELSE <<>>)
                          \o <<Message("user", call[t].question)>>

\* The step in which an ask fails changes neither the Conversation nor the
\* record of answered questions.
FailingAskStep ==
    (\E t \in Callers : call[t].pc = "waiting" /\ call'[t].pc = "idle" /\ ret'.raised) =>
        /\ conversation_history' = conversation_history
        /\ log' = log

\* C20: when the Chat Client call inside ask fails the error reaches the
\* caller and the Conversation is what it was before the call, neither the
\* question nor an answer appended, so a later ask sends the same history as
\* if the failed ask had not happened.
C20_FailedAskKeepsConversation ==
    /\ []FailedAskLeftNoTrace
    /\ [][FailingAskStep]_vars

C20_Witness ==
    /\ AskFailed
    /\ Len(ret.before) = 2
    /\ \E t \in Callers :
          /\ call[t].pc = "waiting"
          /\ call[t].include_history
          /\ call[t].question = ret.question
          /\ Len(call[t].messages) = 4

\* C21: an upload request answered with an error (400 or 500) leaves the
\* session record as it was before the request: analyzer, Dataset, filename
\* and Chat Session are unchanged.
C21_FailedUploadKeepsSession ==
    (req.pc = "idle" /\ ret.op = "upload" /\ ret.status \in {400, 500}) =>
        session_data = ret.before

\* What does hold: an upload answered with 400 leaves the session record as
\* it was.
C21_RejectedUploadKeepsSession ==
    (req.pc = "idle" /\ ret.op = "upload" /\ ret.status = 400) =>
        session_data = ret.before

C21_Rejected ==
    /\ req.pc = "idle"
    /\ ret.op = "upload"
    /\ ret.status = 400
    /\ ret.before.analyzer # NoneVal
    /\ session_data = ret.before

\* C22: in the Streamlit front end, after every completed interaction in
\* which a Chat Session exists, the messages shown are the Chat Session's
\* Conversation: same turns, same roles, same order.
C22_MessagesMirrorConversation ==
    session_state.chat_service # NoneVal =>
        session_state.messages = session_state.chat_service.conversation_history

\* The turns of role r among the first k of the Conversation.
TurnsIn(k, r) == { i \in 1..k : conversation_history[i].role = r }

\* What overlapping asks keep: every call in flight was sent the
\* Conversation as it was when it began, nothing is lost, and no answer comes
\* before the question of a call that has got its answer.
OverlapKeeps ==
    /\ \A t \in Callers :
          call[t].pc \in {"waiting", "appending"} =>
              /\ call[t].messages =
                    <<Message("system", SystemPrompt(summary_cache))>>
                      \o (IF call[t].include_history THEN call[t].before ELSE <<>>)
                      \o <<Message("user", call[t].question)>>
              /\ Len(call[t].before) <= Len(conversation_history)
              /\ SubSeq(conversation_history, 1, Len(call[t].before)) = call[t].before
    /\ \A k \in 0..Len(conversation_history) :
          Cardinality(TurnsIn(k, "user")) >= Cardinality(TurnsIn(k, "assistant"))
    /\ Cardinality(TurnsIn(Len(conversation_history), "user"))
          - Cardinality(TurnsIn(Len(conversation_history), "assistant"))
        = Cardinality({ t \in Callers : call[t].pc = "appending" })
    /\ (Idle /\ Len(log) = 2 /\ log[1].before = log[2].before) =>
          /\ Len(conversation_history) = Len(log[1].before) + 4
          /\ { conversation_history[i] :
                  i \in (Len(log[1].before) + 1)..Len(conversation_history) }
             = { Message("user", log[1].q), Message("assistant", chat_result(log[1].a)),
                 Message("user", log[2].q), Message("assistant", chat_result(log[2].a)) }

\* C23: two asks on the one Chat Session can overlap, and then there is an
\* interleaving after which the Conversation is not a sequence of
\* question/answer pairs, both calls having been sent the same history
\* without the other's turn; the appends themselves are never lost.
C23_OverlappingAsks == OverlapKeeps

\* Both calls were sent the empty history, both have returned, and the
\* Conversation is question, question, answer, answer.
C23_Witness ==
    /\ Idle
    /\ Len(log) = 2
    /\ log[1].before = <<>>
    /\ log[2].before = <<>>
    /\ Len(conversation_history) = 4
    /\ conversation_history[1].role = "user"
    /\ conversation_history[2].role = "user"
    /\ conversation_history[1] # conversation_history[2]
    /\ conversation_history[3].role = "assistant"
    /\ conversation_history[4].role = "assistant"

=============================================================================
